---------------------------- MODULE Spec2Model ----------------------------
(***************************************************************************)
(* A model of the gamezero server's room simulation                       *)
(* (packages/server/src/Room.ts, the revision that carries game modes,    *)
(* statistics and bots: lines 831-1619 of the file), of the fixed-step    *)
(* loop that drives it and of the shared configuration.                   *)
(*                                                                         *)
(* Scale.  The program works on IEEE doubles in a 1920 x 1080 world at 60 *)
(* ticks per second.  The model works on integers:                        *)
(*   - time is counted in quarter ticks: one update advances every timer  *)
(*     by TICK_DT = 4 units, so a duration that is not a whole number of  *)
(*     ticks (FIRE_COOLDOWN = 37.5 ticks in the program) stays one here;  *)
(*   - the durations are scaled down and keep the program's order         *)
(*     dt < FIRE_COOLDOWN < 1.5 FIRE_COOLDOWN < BULLET_LIFETIME           *)
(*        < SHIP_INVULN_TIME < SHIP_RESPAWN_TIME < GAME_DURATION;         *)
(*   - lengths are counted in quarter ship radii (SHIP_RADIUS = 4 units), *)
(*     the world is 36 x 12 units, velocities are units per tick;         *)
(*   - angles are quarter turns (0 = +x, 1 = +y, 2 = -x, 3 = -y), on      *)
(*     which cos and sin are exact;                                        *)
(*   - every Math.random() draw is an argument of the operation that      *)
(*     makes it, chosen by the specification from a finite set.           *)
(***************************************************************************)
EXTENDS Integers, Sequences, FiniteSets, TLC

(***************************************************************************)
(* Scaled durations (time units, 4 per tick) and population sizes.        *)
(***************************************************************************)
FIRE_COOLDOWN == 6

BULLET_LIFETIME == 10

SHIP_INVULN_TIME == 12

SHIP_RESPAWN_TIME == 16

GAME_DURATION == 40

\* Room.update in knockout has no clock: the model stops ticking a match here.
MaxTick == 10

\* generateId's counter never wraps: the model starts no match once it is here.
MaxIdCounter == 2

\* performance.now() never stops: the model's clock stops here.
MaxNow == 24

(***************************************************************************)
(* Program constants, at the model's scale where they are lengths, rates  *)
(* or counts, and as written where they are scores.                       *)
(***************************************************************************)
TICK_DT == 4

TIME_UNITS == 4

WORLD_WIDTH == 36

WORLD_HEIGHT == 12

PADDING == 4

SHIP_RADIUS == 4

BULLET_RADIUS == 1

BULLET_MUZZLE == 2

BULLET_SPEED == 4

SHIP_ACCELERATION == 2

SHIP_ROTATION_STEP == 1

SHIP_DRAG_NUM == 1

SHIP_DRAG_DEN == 2

KILL_SCORE == 200

KILL_POINTS == 50

TOTAL_PLAYERS == 3

MAX_PLAYERS == 3

NUM_HEADINGS == 4

GameModes == {"ffa", "asteroid_hunters", "knockout"}

(***************************************************************************)
(* Identifiers.  A client id is <<"c", n>>; a bot id, `ai-${generateId()}`*)
(* in the program, is <<"ai", n>> with n the room's id counter; null and  *)
(* undefined are NoId.                                                     *)
(***************************************************************************)
NoId == <<"none", 0>>

ClientId(n) == <<"c", n>>

AiId(n) == <<"ai", n>>

IsAiId(id) == id[1] = "ai"

(***************************************************************************)
(* Arithmetic helpers.                                                     *)
(***************************************************************************)
Abs(a) == IF a < 0 THEN -a ELSE a

Sign(a) == IF a > 0 THEN 1 ELSE IF a < 0 THEN -1 ELSE 0

\* division rounding toward zero
Trunc(a, b) == Sign(a) * Sign(b) * (Abs(a) \div Abs(b))

\* a * dt for a rate a given per second (one model second is one tick)
TimesDt(a) == Trunc(a * TICK_DT, TIME_UNITS)

Cos(h) == CASE h % NUM_HEADINGS = 0 -> 1
            [] h % NUM_HEADINGS = 2 -> -1
            [] OTHER -> 0

Sin(h) == CASE h % NUM_HEADINGS = 1 -> 1
            [] h % NUM_HEADINGS = 3 -> -1
            [] OTHER -> 0

\* Math.atan2(dy, dx), to the nearest quarter turn
Atan2(dy, dx) == IF Abs(dx) >= Abs(dy)
                 THEN (IF dx >= 0 THEN 0 ELSE 2)
                 ELSE (IF dy > 0 THEN 1 ELSE 3)

RECURSIVE ISqrtFrom(_, _)
ISqrtFrom(n, k) == IF (k + 1) * (k + 1) > n THEN k ELSE ISqrtFrom(n, k + 1)

\* Math.sqrt, rounded down
ISqrt(n) == ISqrtFrom(n, 0)

(***************************************************************************)
(* Maps.  A JavaScript Map iterates in insertion order, set() on a present*)
(* key keeps the key's place and delete() closes the gap: a Map of        *)
(* records keyed by their id is the sequence of its values.               *)
(***************************************************************************)
Ids(m) == {m[i].id : i \in 1..Len(m)}

Has(m, id) == \E i \in 1..Len(m) : m[i].id = id

IndexOf(m, id) == CHOOSE i \in 1..Len(m) : m[i].id = id

Get(m, id) == m[IndexOf(m, id)]

Put(m, v) == IF Has(m, v.id) THEN [m EXCEPT ![IndexOf(m, v.id)] = v]
             ELSE Append(m, v)

Delete(m, id) == SelectSeq(m, LAMBDA v : v.id # id)

\* the i-th of a sequence of random draws, reused cyclically
Draw(draws, i) == draws[((i - 1) % Len(draws)) + 1]

(***************************************************************************)
(* Asteroid, explosion and mode tables.                                    *)
(***************************************************************************)
MAX_ASTEROIDS == 0

INITIAL_ASTEROIDS == 0

ASTEROID_SPAWN_INTERVAL == 48

HUNTERS_MAX_ASTEROIDS == 3

HUNTERS_INITIAL_ASTEROIDS == 1

HUNTERS_SPAWN_INTERVAL == 20

EDGE_OFFSET == 2

AsteroidRadius(size) == CASE size = "large" -> 12
                          [] size = "medium" -> 8
                          [] OTHER -> 4

AsteroidScore(size) == CASE size = "large" -> 20
                         [] size = "medium" -> 50
                         [] OTHER -> 100

AsteroidSpeed(size) == CASE size = "large" -> 1
                         [] size = "medium" -> 2
                         [] OTHER -> 3

ExplosionLifetime(size) == CASE size = "small" -> 4
                             [] size = "medium" -> 8
                             [] OTHER -> 12

maxAsteroids(r) == IF r.gameMode = "asteroid_hunters" THEN HUNTERS_MAX_ASTEROIDS
                   ELSE MAX_ASTEROIDS

(***************************************************************************)
(* Room: the state after construction.                                     *)
(***************************************************************************)
NewStats == [kills |-> 0, deaths |-> 0, shotsFired |-> 0, shotsHit |-> 0,
             asteroidsDestroyed |-> 0, killedBy |-> <<>>, killed |-> <<>>]

NewRoom == [players |-> <<>>, ships |-> <<>>, asteroids |-> <<>>,
            bullets |-> <<>>, explosions |-> <<>>, phase |-> "lobby",
            tick |-> 0, leaderId |-> NoId, gameTimer |-> GAME_DURATION,
            gameMode |-> "ffa", stats |-> <<>>, asteroidSpawnTimer |-> 0,
            idCounter |-> 0, aiShipIds |-> <<>>, aiState |-> <<>>]

\* String.prototype.toLowerCase on the names the model uses
toLowerCase(name) == CASE name = "Alice" -> "alice"
                       [] name = "ALICE" -> "alice"
                       [] name = "Bob" -> "bob"
                       [] OTHER -> name

\* setGameMode without the look at the phase
setGameModeAnyPhase(r, mode) == [r EXCEPT !.gameMode = mode]

setGameMode(r, mode) == IF r.phase = "lobby" THEN [r EXCEPT !.gameMode = mode]
                        ELSE r

\* stats, killedBy and killed are Maps keyed by id: sequences of [id, ...]
initStats(r, playerId) ==
    IF Has(r.stats, playerId) THEN r
    ELSE [r EXCEPT !.stats = Append(@, [id |-> playerId] @@ NewStats)]

\* findPlayerByName comparing the names as written, letter case included
findPlayerByExactName(r, name) ==
    LET hits == {i \in 1..Len(r.players) : r.players[i].name = name}
    IN  IF hits = {} THEN NoId
        ELSE r.players[CHOOSE i \in hits : \A j \in hits : i <= j].id

\* the first player, in insertion order, whose name matches; NoId for null
findPlayerByName(r, name) ==
    LET hits == {i \in 1..Len(r.players) :
                    toLowerCase(r.players[i].name) = toLowerCase(name)}
    IN  IF hits = {} THEN NoId
        ELSE r.players[CHOOSE i \in hits : \A j \in hits : i <= j].id

\* spawn is the pair of Math.random() draws for the position and the one
\* for the rotation: [x, y, rotation], x and y inside the padding
createShip(playerId, spawn) ==
    [id |-> playerId,
     position |-> [x |-> spawn.x, y |-> spawn.y],
     velocity |-> [x |-> 0, y |-> 0],
     rotation |-> spawn.rotation,
     isThrusting |-> FALSE,
     score |-> 0,
     isAlive |-> TRUE,
     respawnTimer |-> 0,
     fireCooldown |-> 0,
     invulnTimer |-> SHIP_INVULN_TIME]

\* removePlayer promoting the newest member instead of the oldest
removePlayerNewest(r, id) ==
    LET players == Delete(r.players, id)
    IN  [r EXCEPT !.players = players,
                  !.ships = Delete(@, id),
                  !.leaderId = IF r.leaderId = id
                               THEN (IF Len(players) > 0 THEN players[Len(players)].id
                                     ELSE NoId)
                               ELSE @]

\* removePlayer without the re-election
removePlayerLeaderStays(r, id) ==
    [r EXCEPT !.players = Delete(@, id), !.ships = Delete(@, id)]

removePlayer(r, id) ==
    LET players == Delete(r.players, id)
    IN  [r EXCEPT !.players = players,
                  !.ships = Delete(@, id),
                  !.leaderId = IF r.leaderId = id
                               THEN (IF Len(players) > 0 THEN players[1].id
                                     ELSE NoId)
                               ELSE @]

addPlayer(r, id, name, spawn) ==
    LET existing == findPlayerByName(r, name)
        r1 == IF existing # NoId THEN removePlayer(r, existing) ELSE r
        r2 == [r1 EXCEPT !.players = Put(@, [id |-> id, name |-> name]),
                         !.leaderId = IF @ = NoId THEN id ELSE @,
                         !.ships = Put(@, createShip(id, spawn))]
    IN  initStats(r2, id)

bumpStat(stats, id, field) ==
    IF Has(stats, id)
    THEN [stats EXCEPT ![IndexOf(stats, id)][field] = @ + 1]
    ELSE stats

fireBullet(r, ship) ==
    LET bullet == [id |-> r.idCounter + 1,
                   ownerId |-> ship.id,
                   position |->
                     [x |-> ship.position.x
                              + Cos(ship.rotation) * (SHIP_RADIUS + BULLET_MUZZLE),
                      y |-> ship.position.y
                              + Sin(ship.rotation) * (SHIP_RADIUS + BULLET_MUZZLE)],
                   velocity |->
                     [x |-> Cos(ship.rotation) * BULLET_SPEED
                              + Trunc(ship.velocity.x, 2),
                      y |-> Sin(ship.rotation) * BULLET_SPEED
                              + Trunc(ship.velocity.y, 2)],
                   lifetime |-> BULLET_LIFETIME]
    IN  [r EXCEPT !.idCounter = @ + 1,
                  !.bullets = Append(@, bullet),
                  !.stats = bumpStat(@, ship.id, "shotsFired")]

\* the gate without its cooldown test
canFireOnCooldown(ship) == ship.invulnTimer <= 0

\* the gate without its invulnerability test
canFireInvulnerable(ship) == ship.fireCooldown <= 0

\* the gate of applyInput's fire branch
canFire(ship) == ship.fireCooldown <= 0 /\ ship.invulnTimer <= 0

\* applyInput steering the ship whether it is alive or not
applyInputToDead(r, playerId, input) ==
    IF ~Has(r.ships, playerId) THEN r
    ELSE LET ship == [Get(r.ships, playerId) EXCEPT
                         !.rotation = (@ + input.rotation * SHIP_ROTATION_STEP)
                                        % NUM_HEADINGS,
                         !.isThrusting = input.thrust]
             r1 == [r EXCEPT !.ships = Put(@, ship)]
         IN  IF input.fire /\ canFire(ship)
             THEN LET r2 == fireBullet(r1, ship)
                  IN  [r2 EXCEPT !.ships =
                          Put(@, [ship EXCEPT !.fireCooldown = FIRE_COOLDOWN])]
             ELSE r1

\* input is [rotation, thrust, fire], rotation in {-1, 0, 1}
applyInput(r, playerId, input) ==
    IF ~Has(r.ships, playerId) \/ ~Get(r.ships, playerId).isAlive THEN r
    ELSE LET ship == [Get(r.ships, playerId) EXCEPT
                         !.rotation = (@ + input.rotation * SHIP_ROTATION_STEP)
                                        % NUM_HEADINGS,
                         !.isThrusting = input.thrust]
             r1 == [r EXCEPT !.ships = Put(@, ship)]
         IN  IF input.fire /\ canFire(ship)
             THEN LET r2 == fireBullet(r1, ship)
                  IN  [r2 EXCEPT !.ships =
                          Put(@, [ship EXCEPT !.fireCooldown = FIRE_COOLDOWN])]
             ELSE r1

(***************************************************************************)
(* Entities created by the simulation.                                     *)
(***************************************************************************)
\* a is the record of spawnAsteroid's Math.random() draws:
\* [edge, along, angle, fx, fy]; the position of an edge spawn
edgePosition(a) ==
    CASE a.edge = 0 -> [x |-> a.along % WORLD_WIDTH, y |-> -EDGE_OFFSET]
      [] a.edge = 1 -> [x |-> WORLD_WIDTH + EDGE_OFFSET, y |-> a.along % WORLD_HEIGHT]
      [] a.edge = 2 -> [x |-> a.along % WORLD_WIDTH, y |-> WORLD_HEIGHT + EDGE_OFFSET]
      [] OTHER -> [x |-> -EDGE_OFFSET, y |-> a.along % WORLD_HEIGHT]

\* spawnAsteroid(size, position) without the look at the population
spawnAsteroidAtUncapped(r, size, pos, a) ==
    [r EXCEPT !.idCounter = @ + 1,
              !.asteroids = Append(@,
                 [id |-> r.idCounter + 1,
                  position |-> pos,
                  velocity |->
                    [x |-> Cos(a.angle) * Trunc(AsteroidSpeed(size) * a.fx, 2),
                     y |-> Sin(a.angle) * Trunc(AsteroidSpeed(size) * a.fy, 2)],
                  size |-> size,
                  radius |-> AsteroidRadius(size)])]

\* spawnAsteroid(size, position); fx and fy in {1, 2} stand for the factor
\* 0.5 + Math.random() * 0.5, in halves
spawnAsteroidAt(r, size, pos, a) ==
    IF Len(r.asteroids) >= maxAsteroids(r) THEN r
    ELSE [r EXCEPT !.idCounter = @ + 1,
                   !.asteroids = Append(@,
                      [id |-> r.idCounter + 1,
                       position |-> pos,
                       velocity |->
                         [x |-> Cos(a.angle) * Trunc(AsteroidSpeed(size) * a.fx, 2),
                          y |-> Sin(a.angle) * Trunc(AsteroidSpeed(size) * a.fy, 2)],
                       size |-> size,
                       radius |-> AsteroidRadius(size)])]

\* spawnAsteroid(size) with no position: from an edge of the world
spawnAsteroid(r, size, a) == spawnAsteroidAt(r, size, edgePosition(a), a)

spawnExplosion(r, size) ==
    [r EXCEPT !.idCounter = @ + 1,
              !.explosions = Append(@, [id |-> r.idCounter + 1, size |-> size,
                                        lifetime |-> ExplosionLifetime(size)])]

\* addScore taking the points away
addScoreLost(ships, id, points) ==
    IF Has(ships, id)
    THEN [ships EXCEPT ![IndexOf(ships, id)].score = @ - points]
    ELSE ships

addScore(ships, id, points) ==
    IF Has(ships, id)
    THEN [ships EXCEPT ![IndexOf(ships, id)].score = @ + points]
    ELSE ships

\* as is the sequence of draw records of the spawnAsteroid calls
splitAsteroid(r, asteroid, bulletOwnerId, as) ==
    LET r1 == [r EXCEPT
                 !.ships = addScore(@, bulletOwnerId, AsteroidScore(asteroid.size)),
                 !.stats = bumpStat(bumpStat(@, bulletOwnerId, "asteroidsDestroyed"),
                                    bulletOwnerId, "shotsHit")]
        r2 == spawnExplosion(r1, asteroid.size)
        child == IF asteroid.size = "large" THEN "medium" ELSE "small"
    IN  IF asteroid.size = "small" THEN r2
        ELSE spawnAsteroidAt(
                 spawnAsteroidAt(r2, child, asteroid.position, Draw(as, 1)),
                 child, asteroid.position, Draw(as, 2))

wrapPosition(pos) ==
    LET x1 == IF pos.x < 0 THEN pos.x + WORLD_WIDTH ELSE pos.x
        x2 == IF x1 > WORLD_WIDTH THEN x1 - WORLD_WIDTH ELSE x1
        y1 == IF pos.y < 0 THEN pos.y + WORLD_HEIGHT ELSE pos.y
        y2 == IF y1 > WORLD_HEIGHT THEN y1 - WORLD_HEIGHT ELSE y1
    IN  [x |-> x2, y |-> y2]

circleCollision(pos1, r1, pos2, r2) ==
    LET dx == pos2.x - pos1.x
        dy == pos2.y - pos1.y
    IN  dx * dx + dy * dy <= (r1 + r2) * (r1 + r2)

\* a Map from ids to counts, as a sequence of [id, count]
bumpCount(m, id) ==
    IF Has(m, id) THEN [m EXCEPT ![IndexOf(m, id)].count = @ + 1]
    ELSE Append(m, [id |-> id, count |-> 1])

\* the points killShip awards for a kill
killAward == KILL_POINTS

\* killerId is NoId for a kill with no killer
killShip(r, shipId, killerId) ==
    LET attributed == killerId # NoId /\ killerId # shipId
        stats1 == IF Has(r.stats, shipId)
                  THEN LET i == IndexOf(r.stats, shipId)
                       IN  [r.stats EXCEPT
                              ![i].deaths = @ + 1,
                              ![i].killedBy = IF attributed THEN bumpCount(@, killerId)
                                              ELSE @]
                  ELSE r.stats
        stats2 == IF attributed /\ Has(stats1, killerId)
                  THEN LET k == IndexOf(stats1, killerId)
                       IN  [stats1 EXCEPT ![k].kills = @ + 1,
                                          ![k].killed = bumpCount(@, shipId)]
                  ELSE stats1
        ships1 == IF attributed THEN addScore(r.ships, killerId, killAward)
                  ELSE r.ships
        r1 == spawnExplosion([r EXCEPT !.stats = stats2, !.ships = ships1], "medium")
    IN  [r1 EXCEPT !.ships[IndexOf(r.ships, shipId)] =
            [@ EXCEPT !.isAlive = FALSE,
                      !.respawnTimer = SHIP_RESPAWN_TIME,
                      !.velocity = [x |-> 0, y |-> 0]]]

respawnShip(r, ship, spawn) ==
    IF r.gameMode = "knockout" THEN ship
    ELSE [ship EXCEPT !.position = [x |-> spawn.x, y |-> spawn.y],
                      !.velocity = [x |-> 0, y |-> 0],
                      !.rotation = spawn.rotation,
                      !.isAlive = TRUE,
                      !.respawnTimer = 0,
                      !.invulnTimer = SHIP_INVULN_TIME]

(***************************************************************************)
(* checkCollisions.  The four passes read the ships, bullets and          *)
(* asteroids as they stand when the method is entered; the removals, the  *)
(* kills and the splits are applied after them, in that order.            *)
(***************************************************************************)
Min(S) == CHOOSE i \in S : \A j \in S : i <= j

\* the first asteroid, in Map order, that bullet b overlaps; 0 for none
hitAsteroid(r, b) ==
    LET hits == {j \in 1..Len(r.asteroids) :
                    circleCollision(b.position, BULLET_RADIUS,
                                    r.asteroids[j].position, r.asteroids[j].radius)}
    IN  IF hits = {} THEN 0 ELSE Min(hits)

\* the bullet-ship pass without its invulnerability test
bulletCanHitInvulnerable(b, s) == ~(s.id = b.ownerId \/ ~s.isAlive)

\* the bullet-ship pass without its owner test
bulletCanHitOwner(b, s) == ~(~s.isAlive \/ s.invulnTimer > 0)

\* whether the bullet-ship pass lets bullet b hit ship s
bulletCanHit(b, s) == ~(s.id = b.ownerId \/ ~s.isAlive \/ s.invulnTimer > 0)

\* the first ship, in Map order, that bullet b hits; 0 for none
hitShip(r, b) ==
    LET hits == {j \in 1..Len(r.ships) :
                    /\ bulletCanHit(b, r.ships[j])
                    /\ circleCollision(b.position, BULLET_RADIUS,
                                       r.ships[j].position, SHIP_RADIUS)}
    IN  IF hits = {} THEN 0 ELSE Min(hits)

\* whether the ship-asteroid and ship-ship passes consider ship s
canCollide(s) == ~(~s.isAlive \/ s.invulnTimer > 0)

RECURSIVE asteroidSplits(_, _)
asteroidSplits(r, i) ==
    IF i > Len(r.bullets) THEN <<>>
    ELSE LET j == hitAsteroid(r, r.bullets[i])
         IN  (IF j = 0 THEN <<>>
              ELSE <<[asteroid |-> r.asteroids[j], ownerId |-> r.bullets[i].ownerId]>>)
             \o asteroidSplits(r, i + 1)

RECURSIVE bulletKills(_, _)
bulletKills(r, i) ==
    IF i > Len(r.bullets) THEN <<>>
    ELSE LET b == r.bullets[i]
             j == IF hitAsteroid(r, b) # 0 THEN 0 ELSE hitShip(r, b)
         IN  (IF j = 0 THEN <<>>
              ELSE <<[shipId |-> r.ships[j].id, killerId |-> b.ownerId, bullet |-> i]>>)
             \o bulletKills(r, i + 1)

RECURSIVE asteroidKills(_, _)
asteroidKills(r, i) ==
    IF i > Len(r.ships) THEN <<>>
    ELSE (IF /\ canCollide(r.ships[i])
             /\ \E j \in 1..Len(r.asteroids) :
                   circleCollision(r.ships[i].position, SHIP_RADIUS,
                                   r.asteroids[j].position, r.asteroids[j].radius)
          THEN <<[shipId |-> r.ships[i].id, killerId |-> NoId, bullet |-> 0]>>
          ELSE <<>>)
         \o asteroidKills(r, i + 1)

\* whether the ships at places i < j of the Map ram each other
rams(r, i, j) ==
    /\ canCollide(r.ships[i])
    /\ canCollide(r.ships[j])
    /\ circleCollision(r.ships[i].position, SHIP_RADIUS,
                       r.ships[j].position, SHIP_RADIUS)

RECURSIVE ramKills(_, _, _)
ramKills(r, i, j) ==
    IF i > Len(r.ships) THEN <<>>
    ELSE IF j > Len(r.ships) THEN ramKills(r, i + 1, i + 2)
    ELSE (IF rams(r, i, j)
          THEN <<[shipId |-> r.ships[i].id, killerId |-> NoId, bullet |-> 0],
                 [shipId |-> r.ships[j].id, killerId |-> NoId, bullet |-> 0]>>
          ELSE <<>>)
         \o ramKills(r, i, j + 1)

\* shipsToKill, in the order the passes push
shipsToKill(r) == bulletKills(r, 1) \o asteroidKills(r, 1) \o ramKills(r, 1, 2)

\* the kill loop without its test
killDueAlways(r, killedShips, shipId) == TRUE

\* the kill loop's test: the ship is not yet killed in this pass
\* (killedShips) and is alive
killDue(r, killedShips, shipId) ==
    shipId \notin killedShips /\ Get(r.ships, shipId).isAlive

RECURSIVE applyKills(_, _, _, _)
applyKills(r, kills, k, killedShips) ==
    IF k > Len(kills) THEN r
    ELSE IF killDue(r, killedShips, kills[k].shipId)
         THEN applyKills(killShip(r, kills[k].shipId, kills[k].killerId),
                         kills, k + 1, killedShips \cup {kills[k].shipId})
         ELSE applyKills(r, kills, k + 1, killedShips)

RECURSIVE applySplits(_, _, _, _)
applySplits(r, splits, k, as) ==
    IF k > Len(splits) THEN r
    ELSE applySplits(splitAsteroid(r, splits[k].asteroid, splits[k].ownerId, as),
                     splits, k + 1, as)

\* the bullet-ship pass counts a hit for the shooter
RECURSIVE countHits(_, _, _)
countHits(stats, kills, k) ==
    IF k > Len(kills) THEN stats
    ELSE countHits(IF kills[k].bullet # 0
                   THEN bumpStat(stats, kills[k].killerId, "shotsHit")
                   ELSE stats,
                   kills, k + 1)

checkCollisions(r, as) ==
    LET splits == asteroidSplits(r, 1)
        kills == shipsToKill(r)
        bulletsToRemove ==
            {i \in 1..Len(r.bullets) : hitAsteroid(r, r.bullets[i]) # 0}
              \cup {kills[k].bullet : k \in 1..Len(kills)}
        asteroidsToRemove == {splits[k].asteroid.id : k \in 1..Len(splits)}
        keptBullets == {r.bullets[i].id : i \in (1..Len(r.bullets)) \ bulletsToRemove}
        r1 == [r EXCEPT
                 !.stats = countHits(@, kills, 1),
                 !.bullets = SelectSeq(@, LAMBDA b : b.id \in keptBullets),
                 !.asteroids = SelectSeq(@, LAMBDA x : x.id \notin asteroidsToRemove)]
    IN  applySplits(applyKills(r1, kills, 1, {}), splits, 1, as)

(***************************************************************************)
(* updateAI.  d is the record of one bot's Math.random() draws in one     *)
(* update: [think, pick, wander, jitter, thrust]; think is the re-armed   *)
(* think time, pick the outcome of Math.random() < 0.6, wander the change *)
(* of the wander angle, jitter the aim error, thrust the outcome of the   *)
(* thrust draw.                                                            *)
(***************************************************************************)
AI_TURN_STEP == 1

NewAiState(id, wanderAngle) ==
    [id |-> id, targetId |-> NoId, wanderAngle |-> wanderAngle, nextThinkTime |-> 0]

\* the ships a bot may pick as its target
aiTargets(r, aiId) ==
    {j \in 1..Len(r.ships) : /\ r.ships[j].id # aiId
                             /\ r.ships[j].isAlive
                             /\ r.ships[j].invulnTimer <= 0}

distSq(p, q) == (q.x - p.x) * (q.x - p.x) + (q.y - p.y) * (q.y - p.y)

\* the closest target, the first in Map order among equals; NoId for none
closestTarget(r, ship) ==
    LET ts == aiTargets(r, ship.id)
        best == {j \in ts : \A k \in ts :
                    distSq(ship.position, r.ships[j].position)
                      <= distSq(ship.position, r.ships[k].position)}
    IN  IF ts = {} THEN NoId ELSE r.ships[Min(best)].id

\* the two while loops that bring an angle difference into [-pi, pi]
RECURSIVE normalizeAngle(_)
normalizeAngle(d) == IF d > 2 THEN normalizeAngle(d - NUM_HEADINGS)
                     ELSE IF d < -2 THEN normalizeAngle(d + NUM_HEADINGS)
                     ELSE d

aiThink(r, ship, state, d) ==
    LET armed == [state EXCEPT !.nextThinkTime = @ - TICK_DT]
    IN  IF armed.nextThinkTime > 0 THEN armed
        ELSE IF d.pick
             THEN [armed EXCEPT !.nextThinkTime = d.think,
                                !.targetId = closestTarget(r, ship)]
             ELSE [armed EXCEPT !.nextThinkTime = d.think,
                                !.targetId = NoId,
                                !.wanderAngle = (@ + d.wander) % NUM_HEADINGS]

\* the angle the bot wants to face
desiredAngle(r, ship, state, d) ==
    IF state.targetId # NoId /\ Has(r.ships, state.targetId)
       /\ Get(r.ships, state.targetId).isAlive
    THEN LET target == Get(r.ships, state.targetId)
             dist == ISqrt(distSq(ship.position, target.position))
             predictX == target.position.x
                           + Trunc(target.velocity.x * dist * 35, BULLET_SPEED * 100)
             predictY == target.position.y
                           + Trunc(target.velocity.y * dist * 35, BULLET_SPEED * 100)
         IN  Atan2(predictY - ship.position.y, predictX - ship.position.x) + d.jitter
    ELSE state.wanderAngle

\* the bot's fire test without the look at its cooldown
aiFiresOnCooldown(hasTarget, angleDiff, ship) ==
    hasTarget /\ angleDiff = 0 /\ ship.invulnTimer <= 0

\* whether the bot fires: target is the ship its target id names, dead or
\* alive, and angleDiff the difference taken before the turn
aiFires(hasTarget, angleDiff, ship) ==
    hasTarget /\ angleDiff = 0 /\ ship.fireCooldown <= 0 /\ ship.invulnTimer <= 0

aiFireCooldown == (FIRE_COOLDOWN * 3) \div 2

\* one bot's turn of the loop
aiStep(r, aiId, d) ==
    IF ~Has(r.ships, aiId) \/ ~Get(r.ships, aiId).isAlive THEN r
    ELSE LET ship == Get(r.ships, aiId)
             state0 == IF Has(r.aiState, aiId) THEN Get(r.aiState, aiId)
                       ELSE NewAiState(aiId, d.wander % NUM_HEADINGS)
             state == aiThink(r, ship, state0, d)
             hasTarget == state.targetId # NoId /\ Has(r.ships, state.targetId)
             angleDiff == normalizeAngle(desiredAngle(r, ship, state, d) - ship.rotation)
             turned == [ship EXCEPT
                          !.rotation = (@ + Sign(angleDiff) * AI_TURN_STEP) % NUM_HEADINGS,
                          !.isThrusting = d.thrust]
             r1 == [r EXCEPT !.aiState = Put(@, state), !.ships = Put(@, turned)]
         IN  IF aiFires(hasTarget, angleDiff, turned)
             THEN LET r2 == fireBullet(r1, turned)
                  IN  [r2 EXCEPT !.ships =
                          Put(@, [turned EXCEPT !.fireCooldown = aiFireCooldown])]
             ELSE r1

\* ds is the sequence of the bots' draw records
RECURSIVE updateAIFrom(_, _, _)
updateAIFrom(r, k, ds) ==
    IF k > Len(r.aiShipIds) THEN r
    ELSE updateAIFrom(aiStep(r, r.aiShipIds[k], Draw(ds, k)), k + 1, ds)

updateAI(r, ds) == updateAIFrom(r, 1, ds)

(***************************************************************************)
(* update(dt), with dt = TICK_DT.  rnd holds the Math.random() draws of   *)
(* one update: spawn (respawnShip, one [x, y, rotation] per ship),        *)
(* asteroids (spawnAsteroid) and ai (updateAI, one record per bot).       *)
(***************************************************************************)
\* a clock step that lets the timer pass zero before it ends the match
clockEndsLate(r) ==
    IF r.gameMode # "knockout" THEN r.gameTimer - TICK_DT < 0
    ELSE Cardinality({i \in 1..Len(r.ships) : r.ships[i].isAlive}) <= 1

\* a clock step that ends a knockout match only when nobody is left
clockEndsEmpty(r) ==
    IF r.gameMode # "knockout" THEN r.gameTimer - TICK_DT <= 0
    ELSE Cardinality({i \in 1..Len(r.ships) : r.ships[i].isAlive}) <= 0

\* whether update's clock step ends the match before any physics
clockEnds(r) ==
    IF r.gameMode # "knockout" THEN r.gameTimer - TICK_DT <= 0
    ELSE Cardinality({i \in 1..Len(r.ships) : r.ships[i].isAlive}) <= 1

\* a respawn test that waits for the timer to pass zero
respawnDueLate(r, ship) == ship.respawnTimer - TICK_DT < 0

\* whether update respawns this dead ship on this tick
respawnDue(r, ship) == ship.respawnTimer - TICK_DT <= 0

\* a timer's step: counted down while it is positive
countDown(t) == IF t > 0 THEN t - TICK_DT ELSE t

applyDrag(v) == Trunc(v * SHIP_DRAG_NUM, SHIP_DRAG_DEN)

updateShip(r, ship, spawn) ==
    IF ~ship.isAlive
    THEN IF r.gameMode = "knockout" THEN ship
         ELSE IF respawnDue(r, ship)
              THEN respawnShip(r, [ship EXCEPT !.respawnTimer = @ - TICK_DT], spawn)
              ELSE [ship EXCEPT !.respawnTimer = @ - TICK_DT]
    ELSE LET vx0 == IF ship.isThrusting
                    THEN ship.velocity.x + TimesDt(Cos(ship.rotation) * SHIP_ACCELERATION)
                    ELSE ship.velocity.x
             vy0 == IF ship.isThrusting
                    THEN ship.velocity.y + TimesDt(Sin(ship.rotation) * SHIP_ACCELERATION)
                    ELSE ship.velocity.y
             vx == applyDrag(vx0)
             vy == applyDrag(vy0)
         IN  [ship EXCEPT
                !.fireCooldown = countDown(@),
                !.invulnTimer = countDown(@),
                !.velocity = [x |-> vx, y |-> vy],
                !.position = wrapPosition([x |-> @.x + TimesDt(vx),
                                           y |-> @.y + TimesDt(vy)])]

updateBullet(b) ==
    [b EXCEPT !.position = wrapPosition([x |-> @.x + TimesDt(b.velocity.x),
                                         y |-> @.y + TimesDt(b.velocity.y)]),
              !.lifetime = @ - TICK_DT]

updateAsteroid(x) ==
    [x EXCEPT !.position = wrapPosition([x |-> @.x + TimesDt(x.velocity.x),
                                         y |-> @.y + TimesDt(x.velocity.y)])]

\* the asteroid block of update
updateAsteroids(r, as) ==
    IF r.gameMode = "asteroid_hunters" \/ MAX_ASTEROIDS > 0
    THEN LET spawnInterval == IF r.gameMode = "asteroid_hunters"
                              THEN HUNTERS_SPAWN_INTERVAL ELSE ASTEROID_SPAWN_INTERVAL
             r1 == [r EXCEPT
                      !.asteroids = [i \in 1..Len(@) |-> updateAsteroid(@[i])],
                      !.asteroidSpawnTimer = @ - TICK_DT]
         IN  IF r1.asteroidSpawnTimer <= 0 /\ Len(r1.asteroids) < maxAsteroids(r1)
             THEN [spawnAsteroid(r1, "large", Draw(as, 1)) EXCEPT
                      !.asteroidSpawnTimer = spawnInterval]
             ELSE r1
    ELSE r

\* whether update goes past its first lines to the physics
updateRuns(r) == r.phase = "playing" /\ ~clockEnds(r)

\* update from the tick increment to the call of checkCollisions
integrate(r, rnd) ==
    LET r0 == [r EXCEPT !.tick = @ + 1]
        r1 == [r0 EXCEPT
                 !.gameTimer = IF r0.gameMode # "knockout" THEN @ - TICK_DT ELSE @,
                 !.ships = [i \in 1..Len(@) |->
                              updateShip(r0, @[i], Draw(rnd.spawn, i))],
                 !.bullets = SelectSeq([i \in 1..Len(@) |-> updateBullet(@[i])],
                                       LAMBDA b : ~(b.lifetime <= 0))]
        r2 == updateAsteroids(r1, rnd.asteroids)
        r3 == [r2 EXCEPT
                 !.explosions =
                    SelectSeq([i \in 1..Len(@) |->
                                 [@[i] EXCEPT !.lifetime = @ - TICK_DT]],
                              LAMBDA e : ~(e.lifetime <= 0))]
    IN  updateAI(r3, rnd.ai)

\* update without the look at the phase
updateInAnyPhase(r, rnd) ==
    IF clockEnds(r)
    THEN IF r.gameMode # "knockout"
         THEN [r EXCEPT !.tick = @ + 1, !.gameTimer = 0, !.phase = "gameover"]
         ELSE [r EXCEPT !.tick = @ + 1, !.phase = "gameover"]
    ELSE checkCollisions(integrate(r, rnd), rnd.asteroids)

update(r, rnd) ==
    IF r.phase # "playing" THEN r
    ELSE IF clockEnds(r)
         THEN IF r.gameMode # "knockout"
              THEN [r EXCEPT !.tick = @ + 1, !.gameTimer = 0, !.phase = "gameover"]
              ELSE [r EXCEPT !.tick = @ + 1, !.phase = "gameover"]
         ELSE checkCollisions(integrate(r, rnd), rnd.asteroids)

(***************************************************************************)
(* startGame.  rnd holds its draws: asteroids (the initial asteroids) and *)
(* bots (one [x, y, rotation, wander] per bot).                           *)
(***************************************************************************)
RECURSIVE spawnInitialAsteroids(_, _, _, _)
spawnInitialAsteroids(r, i, n, as) ==
    IF i >= n THEN r
    ELSE spawnInitialAsteroids(spawnAsteroid(r, "large", Draw(as, i + 1)), i + 1, n, as)

\* the number of bots startGame adds
\* aiCount leaving one seat empty
aiCountShort(r) == TOTAL_PLAYERS - Len(r.players) - 1

aiCount(r) == TOTAL_PLAYERS - Len(r.players)

RECURSIVE spawnBots(_, _, _, _)
spawnBots(r, i, n, bots) ==
    IF i >= n THEN r
    ELSE LET aiId == AiId(r.idCounter + 1)
             d == Draw(bots, i + 1)
             r1 == [r EXCEPT !.idCounter = @ + 1,
                             !.ships = Put(@, createShip(aiId, d)),
                             !.aiShipIds = IF \E k \in 1..Len(@) : @[k] = aiId THEN @
                                           ELSE Append(@, aiId),
                             !.aiState = Put(@, NewAiState(aiId, d.wander))]
         IN  spawnBots(initStats(r1, aiId), i + 1, n, bots)

startGame(r, rnd) ==
    LET hunters == r.gameMode = "asteroid_hunters"
        r1 == [r EXCEPT !.phase = "playing", !.tick = 0, !.gameTimer = GAME_DURATION]
        r2 == spawnInitialAsteroids(r1, 0,
                 IF hunters THEN HUNTERS_INITIAL_ASTEROIDS ELSE INITIAL_ASTEROIDS,
                 rnd.asteroids)
        r3 == [r2 EXCEPT !.asteroidSpawnTimer =
                 IF hunters THEN HUNTERS_SPAWN_INTERVAL ELSE ASTEROID_SPAWN_INTERVAL]
    IN  spawnBots(r3, 0, aiCount(r3), rnd.bots)

\* cleanup forgetting the bots without deleting their ships
cleanupKeepingShips(r) ==
    [r EXCEPT !.bullets = <<>>, !.asteroids = <<>>, !.explosions = <<>>,
              !.aiShipIds = <<>>, !.aiState = <<>>,
              !.stats = [i \in 1..Len(@) |->
                           [@[i] EXCEPT !.killedBy = <<>>, !.killed = <<>>]]]

\* cleanup leaving the bullets in flight
cleanupKeepingBullets(r) ==
    [r EXCEPT !.asteroids = <<>>, !.explosions = <<>>,
              !.aiShipIds = <<>>, !.aiState = <<>>,
              !.ships = SelectSeq(@, LAMBDA s : ~IsAiId(s.id)),
              !.stats = [i \in 1..Len(@) |->
                           [@[i] EXCEPT !.killedBy = <<>>, !.killed = <<>>]]]

cleanup(r) ==
    [r EXCEPT !.bullets = <<>>, !.asteroids = <<>>, !.explosions = <<>>,
              !.aiShipIds = <<>>, !.aiState = <<>>,
              !.ships = SelectSeq(@, LAMBDA s : ~IsAiId(s.id)),
              !.stats = [i \in 1..Len(@) |->
                           [@[i] EXCEPT !.killedBy = <<>>, !.killed = <<>>]]]

(***************************************************************************)
(* GameLoop.  Times are in the model's time units, tickInterval of them   *)
(* to a tick.  onTick and onBroadcast are the constructor's callbacks:    *)
(* the model appends each call to calls.  scheduled tells that a          *)
(* setImmediate(this.loop) is pending; started is the reading of          *)
(* performance.now() at start().                                          *)
(***************************************************************************)
TICK_RATE == 60

BROADCAST_RATE == 30

tickInterval == TICK_DT

NewGameLoop == [lastTick |-> 0, accumulator |-> 0, running |-> FALSE,
                broadcastCounter |-> 0, scheduled |-> FALSE, started |-> 0,
                drained |-> 0, calls |-> <<>>]

\* one pass of the body of the while loop, its broadcast without the reset
\* of the counter
tickOnceNoReset(l) ==
    LET l1 == [l EXCEPT !.calls = Append(@, "tick"),
                        !.drained = @ + 1,
                        !.accumulator = @ - tickInterval,
                        !.broadcastCounter = @ + 1]
    IN  IF l1.broadcastCounter * BROADCAST_RATE >= TICK_RATE
        THEN [l1 EXCEPT !.calls = Append(@, "broadcast")]
        ELSE l1

\* one pass of the body of the while loop; drained counts the passes of the
\* call of loop
tickOnce(l) ==
    LET l1 == [l EXCEPT !.calls = Append(@, "tick"),
                        !.drained = @ + 1,
                        !.accumulator = @ - tickInterval,
                        !.broadcastCounter = @ + 1]
    IN  IF l1.broadcastCounter * BROADCAST_RATE >= TICK_RATE
        THEN [l1 EXCEPT !.calls = Append(@, "broadcast"), !.broadcastCounter = 0]
        ELSE l1

\* the while loop as an if: at most one tick for a call of loop
drainOnce(l) == IF l.accumulator >= tickInterval THEN tickOnce(l) ELSE l

RECURSIVE drain(_)
drain(l) == IF l.accumulator >= tickInterval THEN drain(tickOnce(l)) ELSE l

\* GameLoop.loop called when performance.now() reads t
loop(l, t) ==
    IF ~l.running THEN [l EXCEPT !.scheduled = FALSE]
    ELSE drain([l EXCEPT !.lastTick = t,
                         !.accumulator = @ + (t - l.lastTick),
                         !.drained = 0,
                         !.scheduled = TRUE])

start(l, t) == loop([l EXCEPT !.running = TRUE, !.lastTick = t, !.started = t], t)

stop(l) == [l EXCEPT !.running = FALSE]

(***************************************************************************)
(* The state.  rooms is GameServer.rooms, the Map from room codes to      *)
(* Rooms.  Four history variables observe it:                             *)
(*   last     names the operation that led to the state;                  *)
(*   clock    is the dt accumulated by the updates of a room's match      *)
(*            since its latest startGame;                                  *)
(*   deadFor  gives, for every dead ship of a room, the dt accumulated by *)
(*            those updates since the one that killed it;                 *)
(*   atCheck  is the room as the latest update handed it to               *)
(*            checkCollisions (the room itself after any other step).     *)
(* The rest of the GameServer is in two variables, observed by a third:   *)
(*   clients   is GameServer.clients, the connected clients by id, each   *)
(*             with its roomCode (NoCode for null) and its type;          *)
(*   gameLoops is the set of room codes GameServer.gameLoops holds a      *)
(*             started loop for;                                          *)
(*   handled   is the message the step handled, its sender and the code   *)
(*             of the error sent back ("none" when the step is not the    *)
(*             handling of a message, or no error was sent).              *)
(* One GameLoop is looked at on its own, on a bench:                      *)
(*   gameLoop  is a GameLoop object, with the callbacks it has made;      *)
(*   now       is the reading of performance.now(), in time units.        *)
(***************************************************************************)
VARIABLES rooms, last, clock, deadFor, atCheck, clients, gameLoops, handled,
          gameLoop, now

vars == <<rooms, last, clock, deadFor, atCheck, clients, gameLoops, handled,
          gameLoop, now>>

\* the GameLoop on the bench, which no Room and no handler touches
bench == <<gameLoop, now>>

\* the GameServer's own state, which a call on a Room leaves alone
server == <<clients, gameLoops, handled>>

NoCode == "none"

NoMessage == [type |-> "none", client |-> NoId, error |-> "none"]

DeadIds(r) == {r.ships[i].id : i \in {j \in 1..Len(r.ships) : ~r.ships[j].isAlive}}

\* deadFor of one room after an operation that left it as r and advanced
\* the match by step
Track(old, r, step) ==
    [id \in DeadIds(r) |-> IF id \in DOMAIN old THEN old[id] + step ELSE 0]

Observe(c, op, step, mid) ==
    /\ last' = op
    /\ clock' = [clock EXCEPT ![c] = IF op = "startGame" THEN 0 ELSE @ + step]
    /\ deadFor' = [deadFor EXCEPT ![c] = Track(@, rooms'[c], step)]
    /\ atCheck' = [atCheck EXCEPT ![c] = mid]

AddPlayer(c, id, name, spawn) ==
    /\ c \in DOMAIN rooms
    /\ rooms' = [rooms EXCEPT ![c] = addPlayer(@, id, name, spawn)]
    /\ Observe(c, "addPlayer", 0, rooms'[c])
    /\ UNCHANGED server
    /\ UNCHANGED bench

RemovePlayer(c, id) ==
    /\ c \in DOMAIN rooms
    /\ rooms' = [rooms EXCEPT ![c] = removePlayer(@, id)]
    /\ Observe(c, "removePlayer", 0, rooms'[c])
    /\ UNCHANGED server
    /\ UNCHANGED bench

SetGameMode(c, mode) ==
    /\ c \in DOMAIN rooms
    /\ rooms' = [rooms EXCEPT ![c] = setGameMode(@, mode)]
    /\ Observe(c, "setGameMode", 0, rooms'[c])
    /\ UNCHANGED server
    /\ UNCHANGED bench

ApplyInput(c, id, input) ==
    /\ c \in DOMAIN rooms
    /\ rooms' = [rooms EXCEPT ![c] = applyInput(@, id, input)]
    /\ Observe(c, "applyInput", 0, rooms'[c])
    /\ UNCHANGED server
    /\ UNCHANGED bench

StartGame(c, rnd) ==
    /\ c \in DOMAIN rooms
    /\ rooms[c].idCounter < MaxIdCounter
    /\ rooms' = [rooms EXCEPT ![c] = startGame(@, rnd)]
    /\ Observe(c, "startGame", 0, rooms'[c])
    /\ UNCHANGED server
    /\ UNCHANGED bench

Update(c, rnd) ==
    /\ c \in DOMAIN rooms
    /\ rooms[c].gameMode = "knockout" => rooms[c].tick < MaxTick
    /\ rooms' = [rooms EXCEPT ![c] = update(@, rnd)]
    /\ Observe(c, "update",
               IF rooms[c].phase = "playing" THEN TICK_DT ELSE 0,
               IF updateRuns(rooms[c]) THEN integrate(rooms[c], rnd) ELSE rooms'[c])
    /\ UNCHANGED server
    /\ UNCHANGED bench

(***************************************************************************)
(* The parameters the specifications draw from.  Two clients, one room;   *)
(* the spawn cells lie on the world's middle line, a ship's width apart   *)
(* or more; a bot spawns in the third cell, facing the others.            *)
(***************************************************************************)
Codes == {"AAAA"}

Clients == {ClientId(1), ClientId(2)}

NameOf(id) == IF id = ClientId(1) THEN "Alice" ELSE "Bob"

SpawnDraws == {[x |-> 4, y |-> 6, rotation |-> 0],
               [x |-> 16, y |-> 6, rotation |-> 2]}

\* the draws of createShip when a client joins
JoinDraws(id) == IF id = ClientId(1) THEN {[x |-> 4, y |-> 6, rotation |-> 0]}
                 ELSE SpawnDraws \cup {[x |-> 16, y |-> 6, rotation |-> 1]}

\* the inputs of a player who keeps the heading and may pull the trigger
Inputs == [rotation : {0}, thrust : {FALSE}, fire : BOOLEAN]

AsteroidDraws == {[edge |-> 3, along |-> 6, angle |-> 0, fx |-> 2, fy |-> 2]}

AiDraws == [think : {2 * TICK_DT}, pick : BOOLEAN, wander : {1},
            jitter : {0}, thrust : {FALSE}]

BotDraws == {[x |-> 28, y |-> 6, rotation |-> 2, wander |-> 0]}

UpdateDraws == [spawn : {<<d>> : d \in SpawnDraws},
                asteroids : {<<d>> : d \in AsteroidDraws},
                ai : {<<d>> : d \in AiDraws}]

StartDraws == [asteroids : {<<d>> : d \in AsteroidDraws},
               bots : {<<d>> : d \in BotDraws}]

(***************************************************************************)
(* Spec: one match from the construction of the room.  The clients join   *)
(* in the lobby, the mode is chosen there, the match is started once and  *)
(* the loop ticks it while the players send inputs.                       *)
(***************************************************************************)
Init ==
    /\ rooms = [c \in Codes |-> NewRoom]
    /\ last = "new"
    /\ clock = [c \in Codes |-> 0]
    /\ deadFor = [c \in Codes |-> <<>>]
    /\ atCheck = [c \in Codes |-> NewRoom]
    /\ clients = <<>>
    /\ gameLoops = {}
    /\ handled = NoMessage
    /\ gameLoop = NewGameLoop
    /\ now = 0

Join(c) ==
    \E id \in Clients : \E spawn \in JoinDraws(id) :
        /\ rooms[c].phase = "lobby"
        /\ ~Has(rooms[c].players, id)
        /\ AddPlayer(c, id, NameOf(id), spawn)

ChooseMode(c) ==
    \E mode \in GameModes : rooms[c].phase = "lobby" /\ SetGameMode(c, mode)

Play(c) == \E id \in Clients, input \in Inputs : ApplyInput(c, id, input)

Start(c) == \E rnd \in StartDraws : rooms[c].phase = "lobby" /\ StartGame(c, rnd)

Tick(c) == \E rnd \in UpdateDraws : Update(c, rnd)

Next == \E c \in Codes : Join(c) \/ ChooseMode(c) \/ Play(c) \/ Start(c) \/ Tick(c)

Spec == Init /\ [][Next]_vars

(***************************************************************************)
(* Vocabulary of the properties.                                           *)
(***************************************************************************)
TimeMode(r) == r.gameMode \in {"ffa", "asteroid_hunters"}

AliveCount(r) == Cardinality({i \in 1..Len(r.ships) : r.ships[i].isAlive})

\* the statistics of a participant
StatsOf(r, id) == Get(r.stats, id)

\* contact of two circles in the plane
Overlap(p, rp, q, rq) ==
    (q.x - p.x) * (q.x - p.x) + (q.y - p.y) * (q.y - p.y) <= (rp + rq) * (rp + rq)

\* the update just taken went as far as checkCollisions
Resolved(c) ==
    last = "update" /\ rooms[c].phase = "playing" /\ atCheck[c].tick = rooms[c].tick

\* ship s, as it entered checkCollisions, was touched by something
TouchedByBullet(r, s) ==
    \E k \in 1..Len(r.bullets) :
        /\ r.bullets[k].ownerId # s.id
        /\ Overlap(r.bullets[k].position, BULLET_RADIUS, s.position, SHIP_RADIUS)

TouchedByOwnBullet(r, s) ==
    \E k \in 1..Len(r.bullets) :
        /\ r.bullets[k].ownerId = s.id
        /\ Overlap(r.bullets[k].position, BULLET_RADIUS, s.position, SHIP_RADIUS)

TouchedByAsteroid(r, s) ==
    \E k \in 1..Len(r.asteroids) :
        Overlap(r.asteroids[k].position, r.asteroids[k].radius, s.position, SHIP_RADIUS)

TouchedByShip(r, s) ==
    \E k \in 1..Len(r.ships) :
        /\ r.ships[k].id # s.id
        /\ r.ships[k].isAlive
        /\ Overlap(r.ships[k].position, SHIP_RADIUS, s.position, SHIP_RADIUS)

\* C4 -- invulnerability immunity: a ship that is alive with invulnTimer > 0
\* when an update resolves its collisions is alive after that update and its
\* deaths tally is the one it had, whatever overlaps it.
C4InvulnerableSurvives ==
    \A c \in Codes :
        Resolved(c) =>
            \A i \in 1..Len(atCheck[c].ships) :
                LET s == atCheck[c].ships[i]
                IN  (s.isAlive /\ s.invulnTimer > 0) =>
                        /\ Has(rooms[c].ships, s.id)
                        /\ Get(rooms[c].ships, s.id).isAlive
                        /\ StatsOf(rooms[c], s.id).deaths
                             = StatsOf(atCheck[c], s.id).deaths

\* an update has just resolved collisions with a foreign bullet inside an
\* invulnerable ship, and the ship lives
C4Witness ==
    \E c \in Codes :
        /\ Resolved(c)
        /\ \E i \in 1..Len(atCheck[c].ships) :
              LET s == atCheck[c].ships[i]
              IN  /\ s.isAlive /\ s.invulnTimer > 0
                  /\ TouchedByBullet(atCheck[c], s)
                  /\ Get(rooms[c].ships, s.id).isAlive

\* C5 -- self-fire immunity: a ship that an update kills was touched, when
\* the collisions were resolved, by a bullet of another owner, an asteroid or
\* another living ship, so its own bullets never are the cause; and nobody's
\* statistics count a kill of itself.
C5OwnBulletHarmless ==
    \A c \in Codes :
        /\ Resolved(c) =>
              \A i \in 1..Len(atCheck[c].ships) :
                  LET s == atCheck[c].ships[i]
                  IN  (s.isAlive /\ ~Get(rooms[c].ships, s.id).isAlive) =>
                          \/ TouchedByBullet(atCheck[c], s)
                          \/ TouchedByAsteroid(atCheck[c], s)
                          \/ TouchedByShip(atCheck[c], s)
        /\ \A i \in 1..Len(rooms[c].stats) :
              /\ ~Has(rooms[c].stats[i].killed, rooms[c].stats[i].id)
              /\ ~Has(rooms[c].stats[i].killedBy, rooms[c].stats[i].id)

\* an update has just resolved collisions with a ship's own bullet inside
\* it, nothing else touching it, and the ship lives
C5Witness ==
    \E c \in Codes :
        /\ Resolved(c)
        /\ \E i \in 1..Len(atCheck[c].ships) :
              LET s == atCheck[c].ships[i]
              IN  /\ s.isAlive /\ s.invulnTimer <= 0
                  /\ TouchedByOwnBullet(atCheck[c], s)
                  /\ Get(rooms[c].ships, s.id).isAlive

\* every id applyInput can be called with, and every input with the trigger
\* pulled
InputIds(r) == Clients \cup Ids(r.ships)

FireInputs == [rotation : {-1, 0, 1}, thrust : BOOLEAN, fire : {TRUE}]

GateOpen(r, id) ==
    /\ Has(r.ships, id)
    /\ Get(r.ships, id).isAlive
    /\ Get(r.ships, id).fireCooldown <= 0
    /\ Get(r.ships, id).invulnTimer <= 0

\* a ship without the two fields every accepted input writes
Unsteered(ship) == [ship EXCEPT !.rotation = 0, !.isThrusting = FALSE]

\* what a shot leaves: exactly one more bullet, fresh and owned by the ship,
\* and the ship's fireCooldown at FIRE_COOLDOWN
Fired(r, q, id) ==
    /\ Len(q.bullets) = Len(r.bullets) + 1
    /\ SubSeq(q.bullets, 1, Len(r.bullets)) = r.bullets
    /\ q.bullets[Len(q.bullets)].ownerId = id
    /\ ~Has(r.bullets, q.bullets[Len(q.bullets)].id)
    /\ Get(q.ships, id).fireCooldown = FIRE_COOLDOWN

\* C7 (as stated) -- fire gating: in every reachable room, applyInput with
\* fire = true appends exactly one bullet, owned by the ship, and sets the
\* ship's fireCooldown to FIRE_COOLDOWN if the ship exists, is alive and has
\* fireCooldown <= 0 and invulnTimer <= 0; otherwise no bullet is created and
\* the ship state is unaffected.
C7FireGateStated ==
    \A c \in Codes : \A id \in InputIds(rooms[c]), input \in FireInputs :
        LET r == rooms[c]
            q == applyInput(r, id, input)
        IN  IF GateOpen(r, id) THEN Fired(r, q, id) ELSE q = r

\* C7 -- fire gating, the steering apart: the same, except that with the gate
\* closed nothing changes but the rotation and isThrusting of that ship,
\* which a living ship takes from the input whether it fires or not.
C7FireGate ==
    \A c \in Codes : \A id \in InputIds(rooms[c]), input \in FireInputs :
        LET r == rooms[c]
            q == applyInput(r, id, input)
        IN  IF GateOpen(r, id)
            THEN Fired(r, q, id)
            ELSE /\ q.bullets = r.bullets
                 /\ [q EXCEPT !.ships = <<>>] = [r EXCEPT !.ships = <<>>]
                 /\ Len(q.ships) = Len(r.ships)
                 /\ \A i \in 1..Len(r.ships) :
                       IF r.ships[i].id = id
                       THEN /\ Unsteered(q.ships[i]) = Unsteered(r.ships[i])
                            /\ r.ships[i].isAlive \/ q.ships[i] = r.ships[i]
                       ELSE q.ships[i] = r.ships[i]

\* a client's input has just fired: its bullet is fresh and its ship starts
\* the cooldown
C7Witness ==
    \E c \in Codes :
        /\ last = "applyInput"
        /\ \E k \in 1..Len(rooms[c].bullets) :
              LET b == rooms[c].bullets[k]
              IN  /\ b.ownerId \in Clients
                  /\ b.lifetime = BULLET_LIFETIME
                  /\ Get(rooms[c].ships, b.ownerId).fireCooldown = FIRE_COOLDOWN

\* C10 -- kill scoring: when a bullet of living ship A is inside a living ship
\* B # A with invulnTimer <= 0 as an update resolves its collisions, then
\* after the update B is dead with respawnTimer = SHIP_RESPAWN_TIME, A's
\* score is KILL_SCORE higher, A's kills tally one higher and B's deaths
\* tally one higher.
C10KillScore ==
    \A c \in Codes :
        Resolved(c) =>
            \A k \in 1..Len(atCheck[c].bullets), i \in 1..Len(atCheck[c].ships) :
                LET m == atCheck[c]
                    r == rooms[c]
                    a == m.bullets[k].ownerId
                    s == m.ships[i]
                IN  (/\ Has(m.ships, a) /\ Get(m.ships, a).isAlive
                     /\ s.id # a /\ s.isAlive /\ s.invulnTimer <= 0
                     /\ Overlap(m.bullets[k].position, BULLET_RADIUS,
                                s.position, SHIP_RADIUS)) =>
                        /\ ~Get(r.ships, s.id).isAlive
                        /\ Get(r.ships, s.id).respawnTimer = SHIP_RESPAWN_TIME
                        /\ Get(r.ships, a).score = Get(m.ships, a).score + KILL_SCORE
                        /\ StatsOf(r, a).kills = StatsOf(m, a).kills + 1
                        /\ StatsOf(r, s.id).deaths = StatsOf(m, s.id).deaths + 1

\* C3 -- knockout ends by head count alone: an update of a knockout match in
\* play ends it exactly when at most one ship is alive as the update begins,
\* and never changes gameTimer; an update of a time-based match ends it only
\* when GAME_DURATION minus the accumulated dt is <= 0, however few ships
\* are alive.
C3KnockoutEnd ==
    [][\A c \in Codes :
          (last' = "update" /\ rooms[c].phase = "playing") =>
              IF rooms[c].gameMode = "knockout"
              THEN /\ rooms'[c].phase = "gameover" <=> AliveCount(rooms[c]) <= 1
                   /\ rooms'[c].gameTimer = rooms[c].gameTimer
              ELSE rooms'[c].phase = "gameover" => GAME_DURATION - clock'[c] <= 0]_vars

\* an update has just ended a knockout match that was down to one ship, the
\* timer still at its start value
C3Witness ==
    \E c \in Codes :
        /\ last = "update"
        /\ rooms[c].gameMode = "knockout"
        /\ rooms[c].phase = "gameover"
        /\ AliveCount(rooms[c]) <= 1
        /\ rooms[c].tick > 1
        /\ rooms[c].gameTimer = GAME_DURATION

(***************************************************************************)
(* SpecFair: Spec under a loop that keeps ticking.  GameServer.startGame  *)
(* starts the room's GameLoop, and the loop re-arms its timer at the end  *)
(* of every iteration: while a match is in play its update is called      *)
(* again and again.  LoopFair is weak fairness of Tick, WF_vars(Tick(c)), *)
(* with the states in which Tick cannot advance a match written out.      *)
(***************************************************************************)
TickIdle(c) ==
    \/ rooms[c].phase # "playing"
    \/ rooms[c].gameMode = "knockout" /\ rooms[c].tick >= MaxTick

LoopFair == \A c \in Codes : []<>TickIdle(c) \/ []<><<Tick(c)>>_vars

SpecFair == Init /\ [][Next]_vars /\ LoopFair

\* C2 -- in the time-based modes a match in play is ended by a step exactly
\* when the step is an update and GAME_DURATION minus the dt accumulated by
\* the updates since startGame is then <= 0; and under a loop that keeps
\* ticking, with no second startGame, every such match ends.
C2TimedEnd ==
    /\ [][\A c \in Codes :
             (rooms[c].phase = "playing" /\ TimeMode(rooms[c])) =>
                 (rooms'[c].phase = "gameover"
                    <=> (last' = "update" /\ GAME_DURATION - clock'[c] <= 0))]_vars
    /\ \A c \in Codes :
          (rooms[c].phase = "playing" /\ TimeMode(rooms[c]))
             ~> (rooms[c].phase = "gameover")

\* an update has just ended a time-based match, the accumulated dt having
\* reached GAME_DURATION on it and not before
C2Witness ==
    \E c \in Codes :
        /\ last = "update"
        /\ TimeMode(rooms[c])
        /\ rooms[c].phase = "gameover"
        /\ GAME_DURATION - clock[c] <= 0
        /\ GAME_DURATION - (clock[c] - TICK_DT) > 0

\* ship id of room c after the step is back in play as respawnShip leaves it
Respawned(c, id) ==
    LET s == Get(rooms'[c].ships, id)
    IN  /\ s.isAlive
        /\ s.velocity = [x |-> 0, y |-> 0]
        /\ s.respawnTimer = 0
        /\ s.invulnTimer = SHIP_INVULN_TIME

\* C8 (as stated) -- respawn timing: in a time-based match, on every update
\* a dead ship stays dead while the dt accumulated since the update that
\* killed it is below SHIP_RESPAWN_TIME, and on the update at which it
\* reaches SHIP_RESPAWN_TIME the ship is alive again with velocity zero,
\* respawnTimer 0 and invulnTimer = SHIP_INVULN_TIME.
C8RespawnStated ==
    [][\A c \in Codes :
          (last' = "update" /\ rooms[c].phase = "playing" /\ TimeMode(rooms[c])) =>
              \A id \in DOMAIN deadFor[c] :
                  IF deadFor[c][id] + TICK_DT >= SHIP_RESPAWN_TIME
                  THEN Respawned(c, id)
                  ELSE ~Get(rooms'[c].ships, id).isAlive]_vars

\* C8 -- respawn timing, for the updates that do not end the match: the same,
\* except that the update whose clock step ends the match respawns nobody.
C8RespawnInPlay ==
    [][\A c \in Codes :
          (last' = "update" /\ rooms[c].phase = "playing" /\ TimeMode(rooms[c])) =>
              \A id \in DOMAIN deadFor[c] :
                  IF /\ rooms'[c].phase = "playing"
                     /\ deadFor[c][id] + TICK_DT >= SHIP_RESPAWN_TIME
                  THEN Respawned(c, id)
                  ELSE ~Get(rooms'[c].ships, id).isAlive]_vars

\* an update has just respawned a ship that had died in the match
C8Witness ==
    \E c \in Codes :
        /\ Resolved(c)
        /\ TimeMode(rooms[c])
        /\ \E i \in 1..Len(rooms[c].ships) :
              LET s == rooms[c].ships[i]
              IN  /\ s.isAlive
                  /\ s.invulnTimer = SHIP_INVULN_TIME
                  /\ s.respawnTimer = 0
                  /\ StatsOf(rooms[c], s.id).deaths > 0

(***************************************************************************)
(* SpecRestart: Spec with startGame called in every phase, as             *)
(* GameServer.startGame does on a start_game message without looking at   *)
(* the phase.  The players pull no trigger here.                          *)
(***************************************************************************)
Idle(c) ==
    \E id \in Clients :
        ApplyInput(c, id, [rotation |-> 0, thrust |-> FALSE, fire |-> FALSE])

Restart(c) == \E rnd \in StartDraws : StartGame(c, rnd)

NextRestart ==
    \E c \in Codes : Join(c) \/ ChooseMode(c) \/ Idle(c) \/ Restart(c) \/ Tick(c)

SpecRestart == Init /\ [][NextRestart]_vars

(***************************************************************************)
(* SpecRejoin: Spec with clients that, instead of playing, leave the      *)
(* match or join it again while it runs, as GameServer.leaveRoom and      *)
(* joinRoom let them: neither looks at the phase, and joinRoom does not   *)
(* look for the client among the players.                                 *)
(***************************************************************************)
Rejoin(c) ==
    \E spawn \in JoinDraws(ClientId(1)) :
        /\ rooms[c].phase = "playing"
        /\ AddPlayer(c, ClientId(1), NameOf(ClientId(1)), spawn)

Leave(c) == rooms[c].phase = "playing" /\ RemovePlayer(c, ClientId(1))

NextRejoin ==
    \E c \in Codes :
        Join(c) \/ ChooseMode(c) \/ Start(c) \/ Rejoin(c) \/ Leave(c) \/ Tick(c)

SpecRejoin == Init /\ [][NextRejoin]_vars

\* C1 -- the phases only move forward: no step takes a room out of
\* 'gameover', and no step takes a room from 'playing' back to 'lobby'.
C1PhaseTerminal ==
    [][\A c \in Codes :
          /\ rooms[c].phase = "gameover" => rooms'[c].phase = "gameover"
          /\ rooms[c].phase = "playing" => rooms'[c].phase # "lobby"]_vars

\* C9 -- in knockout a dead ship stays dead: no step turns a ship id that is
\* dead in a knockout room into a living ship.
C9DeadStaysDead ==
    [][\A c \in Codes :
          rooms[c].gameMode = "knockout" =>
              \A id \in DeadIds(rooms[c]) :
                  Has(rooms'[c].ships, id) => ~Get(rooms'[c].ships, id).isAlive]_vars

\* ---------------------------------------------------------------------------
\* A match steered across the wrap seam: Alice spawns facing west next to the
\* left edge and may thrust, so that her ship meets, from the far side of the
\* seam, Bob's ship that spawned next to the right edge.
EdgeDraws(id) ==
    IF id = ClientId(1) THEN {[x |-> 4, y |-> 6, rotation |-> 2]}
    ELSE {[x |-> 30, y |-> 6, rotation |-> 0]}

EdgeJoin(c) ==
    \E id \in Clients : \E spawn \in EdgeDraws(id) :
        /\ rooms[c].phase = "lobby"
        /\ ~Has(rooms[c].players, id)
        /\ AddPlayer(c, id, NameOf(id), spawn)

Steer(c) ==
    \E thrust \in BOOLEAN :
        ApplyInput(c, ClientId(1), [rotation |-> 0, thrust |-> thrust, fire |-> FALSE])

EdgeStartDraws ==
    [asteroids : {<<d>> : d \in AsteroidDraws},
     bots : {<<[x |-> 16, y |-> 6, rotation |-> 2, wander |-> 0]>>}]

EdgeStart(c) ==
    \E rnd \in EdgeStartDraws : rooms[c].phase = "lobby" /\ StartGame(c, rnd)

NextEdge ==
    \E c \in Codes : EdgeJoin(c) \/ ChooseMode(c) \/ Steer(c) \/ EdgeStart(c) \/ Tick(c)

SpecEdge == Init /\ [][NextEdge]_vars

\* the shorter of the two ways round a world axis of the given size
TorusDelta(a, b, size) ==
    LET d == Abs(a - b) IN IF size - d < d THEN size - d ELSE d

\* circle-circle overlap under toroidal distance
TorusOverlap(p, rp, q, rq) ==
    LET dx == TorusDelta(p.x, q.x, WORLD_WIDTH)
        dy == TorusDelta(p.y, q.y, WORLD_HEIGHT)
    IN  dx * dx + dy * dy <= (rp + rq) * (rp + rq)

\* how often a has killed b, by a's statistics
KilledCount(r, a, b) ==
    IF Has(r.stats, a) /\ Has(StatsOf(r, a).killed, b)
    THEN Get(StatsOf(r, a).killed, b).count
    ELSE 0

\* a bullet of ship a touches ship b as checkCollisions starts
ShotBy(r, a, b) ==
    \E k \in 1..Len(r.bullets) :
        /\ r.bullets[k].ownerId = a.id
        /\ Overlap(r.bullets[k].position, BULLET_RADIUS, b.position, SHIP_RADIUS)

\* ships a and b of the room that entered checkCollisions have both died in
\* the update of room c, and neither is credited with killing the other
RamOutcome(c, a, b) ==
    /\ ~Get(rooms[c].ships, a.id).isAlive
    /\ ~Get(rooms[c].ships, b.id).isAlive
    /\ ShotBy(atCheck[c], a, b)
         \/ KilledCount(rooms[c], a.id, b.id) = KilledCount(atCheck[c], a.id, b.id)
    /\ ShotBy(atCheck[c], b, a)
         \/ KilledCount(rooms[c], b.id, a.id) = KilledCount(atCheck[c], b.id, a.id)

\* C6 -- mutual ram: whenever two living ships with invulnTimer <= 0 overlap
\* (circle-circle overlap under toroidal distance) as the collisions of an
\* update are resolved, both are dead at the end of that update, and neither
\* is credited with a kill for it.
C6MutualRam ==
    \A c \in Codes :
        Resolved(c) =>
            \A i, j \in 1..Len(atCheck[c].ships) :
                LET a == atCheck[c].ships[i]
                    b == atCheck[c].ships[j]
                IN  (/\ i < j
                     /\ canCollide(a) /\ canCollide(b)
                     /\ TorusOverlap(a.position, SHIP_RADIUS, b.position, SHIP_RADIUS))
                    => RamOutcome(c, a, b)

(***************************************************************************)
(* SpecHunt: a match of asteroid_hunters in which two clients shoot at    *)
(* one asteroid.  The large asteroid of startGame enters from the right   *)
(* edge and comes to rest next to the left one; Alice faces it from the   *)
(* east, Bob has it in front of him across the wrap seam, and the bot     *)
(* spawns inside it and wanders.                                           *)
(***************************************************************************)
HuntDraws(id) ==
    IF id = ClientId(1) THEN {[x |-> 19, y |-> 6, rotation |-> 2]}
    ELSE {[x |-> 30, y |-> 6, rotation |-> 0]}

HuntAsteroidDraws == {[edge |-> 1, along |-> 6, angle |-> 0, fx |-> 1, fy |-> 1]}

HuntStartDraws ==
    [asteroids : {<<d>> : d \in HuntAsteroidDraws},
     bots : {<<[x |-> 4, y |-> 6, rotation |-> 2, wander |-> 0]>>}]

HuntUpdateDraws ==
    [spawn : {<<[x |-> 28, y |-> 6, rotation |-> 2]>>},
     asteroids : {<<d>> : d \in HuntAsteroidDraws},
     ai : {<<[think |-> 2 * TICK_DT, pick |-> FALSE, wander |-> 1, jitter |-> 0,
              thrust |-> FALSE]>>}]

HuntJoin(c) ==
    \E id \in Clients : \E spawn \in HuntDraws(id) :
        /\ rooms[c].phase = "lobby"
        /\ ~Has(rooms[c].players, id)
        /\ AddPlayer(c, id, NameOf(id), spawn)

HuntMode(c) == rooms[c].phase = "lobby" /\ SetGameMode(c, "asteroid_hunters")

HuntStart(c) ==
    \E rnd \in HuntStartDraws :
        /\ rooms[c].phase = "lobby"
        /\ rooms[c].gameMode = "asteroid_hunters"
        /\ StartGame(c, rnd)

HuntTick(c) == \E rnd \in HuntUpdateDraws : Update(c, rnd)

NextHunt ==
    \E c \in Codes : HuntJoin(c) \/ HuntMode(c) \/ Play(c) \/ HuntStart(c) \/ HuntTick(c)

SpecHunt == Init /\ [][NextHunt]_vars

\* the asteroids of room r whose id room q does not hold, as places of r
NotIn(r, q) == {i \in 1..Len(r.asteroids) : ~Has(q.asteroids, r.asteroids[i].id)}

ChildSize(size) == CASE size = "large" -> "medium"
                     [] size = "medium" -> "small"
                     [] OTHER -> "none"

RECURSIVE Total(_)
Total(seq) == IF seq = <<>> THEN 0 ELSE Head(seq) + Total(Tail(seq))

\* what the ships of q have scored since m otherwise than by kills
AsteroidPoints(m, q) ==
    Total([i \in 1..Len(m.ships) |->
             (Get(q.ships, m.ships[i].id).score - m.ships[i].score)
             - KILL_POINTS * (StatsOf(q, m.ships[i].id).kills
                               - StatsOf(m, m.ships[i].id).kills)])

\* C11 -- asteroid split conservation: when the collisions of an update
\* destroy asteroids, each destroyed large one leaves exactly two medium
\* asteroids at its position and each medium one two small ones, fewer only
\* when the population cap is reached; a small one leaves none, no other
\* asteroid appears, and the ships are credited the score value of each
\* destroyed asteroid once.
C11SplitConservation ==
    \A c \in Codes :
        Resolved(c) =>
            LET m == atCheck[c]
                q == rooms[c]
                gone == NotIn(m, q)
                born == NotIn(q, m)
                Kids(i) == {j \in born :
                               /\ q.asteroids[j].position = m.asteroids[i].position
                               /\ q.asteroids[j].size = ChildSize(m.asteroids[i].size)}
                Peers(i) == {k \in gone :
                               /\ m.asteroids[k].position = m.asteroids[i].position
                               /\ m.asteroids[k].size = m.asteroids[i].size}
                Due(i) == IF m.asteroids[i].size = "small" THEN 0
                          ELSE 2 * Cardinality(Peers(i))
            IN  /\ \A i \in gone :
                      /\ Cardinality(Kids(i)) <= Due(i)
                      /\ Cardinality(Kids(i)) < Due(i)
                            => Len(q.asteroids) >= maxAsteroids(q)
                /\ \A j \in born : \E i \in gone : j \in Kids(i)
                /\ AsteroidPoints(m, q)
                      = Total([k \in 1..Len(m.asteroids) |->
                                 IF k \in gone THEN AsteroidScore(m.asteroids[k].size)
                                 ELSE 0])

\* a position inside the world
InWorld(pos) ==
    /\ 0 <= pos.x /\ pos.x < WORLD_WIDTH
    /\ 0 <= pos.y /\ pos.y < WORLD_HEIGHT

\* C12 -- wrap invariant: after every update of a room in play, every ship,
\* bullet and asteroid of the room has 0 <= position.x < WORLD_WIDTH and
\* 0 <= position.y < WORLD_HEIGHT, those created during the update included.
C12WrapInvariant ==
    \A c \in Codes :
        (last = "update" /\ rooms[c].phase = "playing") =>
            /\ \A i \in 1..Len(rooms[c].ships) : InWorld(rooms[c].ships[i].position)
            /\ \A i \in 1..Len(rooms[c].bullets) : InWorld(rooms[c].bullets[i].position)
            /\ \A i \in 1..Len(rooms[c].asteroids) : InWorld(rooms[c].asteroids[i].position)

\* the circles Room.checkCollisions tests against each other
ShipCircles(r) ==
    {[position |-> r.ships[i].position, radius |-> SHIP_RADIUS] : i \in 1..Len(r.ships)}

BulletCircles(r) ==
    {[position |-> r.bullets[i].position, radius |-> BULLET_RADIUS] :
        i \in 1..Len(r.bullets)}

AsteroidCircles(r) ==
    {[position |-> r.asteroids[i].position, radius |-> r.asteroids[i].radius] :
        i \in 1..Len(r.asteroids)}

\* circleCollision answers for the two circles as toroidal distance does
TorusTest(a, b) ==
    circleCollision(a.position, a.radius, b.position, b.radius)
        <=> TorusOverlap(a.position, a.radius, b.position, b.radius)

\* C13 -- toroidal collision tests: for the entities checkCollisions meets,
\* each bullet-asteroid, bullet-ship, ship-asteroid and ship-ship test
\* reports a collision iff the distance taken with the shorter of the direct
\* and the wrap-around delta on each axis is <= the sum of the radii.
C13ToroidalTests ==
    \A c \in Codes :
        Resolved(c) =>
            LET m == atCheck[c]
            IN  /\ \A a \in BulletCircles(m) : \A b \in AsteroidCircles(m) : TorusTest(a, b)
                /\ \A a \in BulletCircles(m) : \A b \in ShipCircles(m) : TorusTest(a, b)
                /\ \A a \in ShipCircles(m) : \A b \in AsteroidCircles(m) : TorusTest(a, b)
                /\ \A a \in ShipCircles(m) : \A b \in ShipCircles(m) : TorusTest(a, b)

(***************************************************************************)
(* SpecLobby: the membership of a room in the lobby.  Three clients join  *)
(* under four names of which two differ in case only, rejoin under any   *)
(* of the names and leave, in any order; GameServer.joinRoom turns a      *)
(* client away from a full room.                                           *)
(***************************************************************************)
LobbyClients == {ClientId(1), ClientId(2), ClientId(3)}

Names == {"Alice", "ALICE", "Bob", "Eve"}

LobbyDraws == {[x |-> 16, y |-> 6, rotation |-> 0]}

LobbyJoin(c) ==
    \E id \in LobbyClients, name \in Names, spawn \in LobbyDraws :
        /\ rooms[c].phase = "lobby"
        /\ Len(rooms[c].players) < MAX_PLAYERS
        /\ AddPlayer(c, id, name, spawn)

LobbyLeave(c) == \E id \in LobbyClients : RemovePlayer(c, id)

NextLobby == \E c \in Codes : LobbyJoin(c) \/ LobbyLeave(c)

SpecLobby == Init /\ [][NextLobby]_vars

\* the member that follows member id in join order, the oldest member if
\* none follows, NoId if id is the only member
NextMember(r, id) ==
    LET k == IndexOf(r.players, id)
        after == {i \in 1..Len(r.players) : i > k}
        others == {i \in 1..Len(r.players) : i # k}
    IN  IF after # {} THEN r.players[CHOOSE i \in after : \A j \in after : i <= j].id
        ELSE IF others # {}
             THEN r.players[CHOOSE i \in others : \A j \in others : i <= j].id
             ELSE NoId

\* C14 -- leader re-election: in every reachable room, removePlayer for the
\* current leader makes the next remaining member in join order the leader,
\* or nobody if no member remains, and removePlayer for anyone else leaves
\* leaderId as it is.
C14LeaderReelection ==
    \A c \in Codes : \A id \in LobbyClients :
        LET r == rooms[c]
            q == removePlayer(r, id)
        IN  IF r.leaderId = id
            THEN q.leaderId = (IF Has(r.players, id) THEN NextMember(r, id) ELSE NoId)
            ELSE q.leaderId = r.leaderId

\* after a removePlayer the first member the room ever had is gone, and the
\* member that joined second leads the two that remain
C14Witness ==
    \E c \in Codes :
        /\ last = "removePlayer"
        /\ Len(rooms[c].players) = 2
        /\ Len(rooms[c].stats) = 3
        /\ ~Has(rooms[c].players, rooms[c].stats[1].id)
        /\ rooms[c].leaderId = rooms[c].stats[2].id
        /\ rooms[c].players[1].id = rooms[c].stats[2].id

(***************************************************************************)
(* SpecNames: a free-for-all match that a third client joins under the    *)
(* name of one of its players.  Alice and Bob join in the lobby, Alice    *)
(* shoots, and while the match is on the third client joins, and joins    *)
(* again, under any of the names once a shot has scored.                   *)
(***************************************************************************)
NamesJoin(c) ==
    \E id \in Clients : \E spawn \in SpawnDraws :
        /\ rooms[c].phase = "lobby"
        /\ Len(rooms[c].players) = (IF id = ClientId(1) THEN 0 ELSE 1)
        /\ ~Has(rooms[c].players, id)
        /\ spawn.rotation = (IF id = ClientId(1) THEN 0 ELSE 2)
        /\ AddPlayer(c, id, NameOf(id), spawn)

Shoot(c) ==
    /\ rooms[c].phase = "playing"
    /\ ApplyInput(c, ClientId(1), [rotation |-> 0, thrust |-> FALSE, fire |-> TRUE])

Takeover(c) ==
    \E name \in Names, spawn \in LobbyDraws :
        /\ rooms[c].phase = "playing"
        /\ \E i \in 1..Len(rooms[c].ships) : rooms[c].ships[i].score > 0
        /\ Len(rooms[c].players) < MAX_PLAYERS
        /\ AddPlayer(c, ClientId(3), name, spawn)

NextNames ==
    \E c \in Codes : NamesJoin(c) \/ Shoot(c) \/ Start(c) \/ Takeover(c) \/ Tick(c)

SpecNames == Init /\ [][NextNames]_vars

\* the ids of the players of r that hold the name, letter case aside
Holders(r, name) ==
    {r.players[i].id : i \in {j \in 1..Len(r.players) :
                                 toLowerCase(r.players[j].name) = toLowerCase(name)}}

UniqueNames(r) ==
    \A i, j \in 1..Len(r.players) :
        toLowerCase(r.players[i].name) = toLowerCase(r.players[j].name) => i = j

\* C15: a join under a name that a player of the room already holds, letter
\* case aside, removes that player and its ship and leaves the joining id
\* with that name and a fresh ship (score 0, alive, fully invulnerable); so
\* in every room, whatever joins it has seen, no two players hold names that
\* are equal letter case aside
C15DuplicateNameRejoin ==
    \A c \in Codes :
        /\ UniqueNames(rooms[c])
        /\ \A id \in LobbyClients, name \in Names, spawn \in LobbyDraws :
               LET r == rooms[c]
                   q == addPlayer(r, id, name, spawn)
                   k == IndexOf(q.ships, id)
               IN  /\ \A h \in Holders(r, name) \ {id} :
                          ~Has(q.players, h) /\ ~Has(q.ships, h)
                   /\ Holders(q, name) = {id}
                   /\ q.players[IndexOf(q.players, id)].name = name
                   /\ Has(q.ships, id)
                   /\ q.ships[k].score = 0
                   /\ q.ships[k].isAlive
                   /\ q.ships[k].invulnTimer = SHIP_INVULN_TIME
                   /\ UniqueNames(q)

\* the third client has joined a running match under Alice's name after
\* Alice had scored: Alice and her ship are gone, and the newcomer holds the
\* name with a ship that has no score
C15Witness ==
    \E c \in Codes :
        LET r == rooms[c]
        IN  /\ last = "addPlayer"
            /\ r.phase = "playing"
            /\ Holders(r, "Alice") = {ClientId(3)}
            /\ ~Has(r.players, ClientId(1))
            /\ ~Has(r.ships, ClientId(1))
            /\ Has(r.stats, ClientId(1))
            /\ r.stats[IndexOf(r.stats, ClientId(1))].kills > 0
            /\ r.ships[IndexOf(r.ships, ClientId(3))].score = 0

(***************************************************************************)
(* SpecMembers: the operations of a Room that add and drop ships, in any  *)
(* order and in every phase: clients join and leave, the match is started *)
(* and started again, the loop ticks it, and the room is cleaned up.      *)
(***************************************************************************)
Cleanup(c) ==
    /\ c \in DOMAIN rooms
    /\ rooms' = [rooms EXCEPT ![c] = cleanup(@)]
    /\ Observe(c, "cleanup", 0, rooms'[c])
    /\ UNCHANGED server
    /\ UNCHANGED bench

MemberJoin(c) ==
    \E id \in Clients : \E spawn \in HuntDraws(id) :
        AddPlayer(c, id, NameOf(id), spawn)

MemberLeave(c) == \E id \in Clients : RemovePlayer(c, id)

MemberStart(c) == \E rnd \in HuntStartDraws : StartGame(c, rnd)

NextMembers ==
    \E c \in Codes : MemberJoin(c) \/ MemberLeave(c) \/ MemberStart(c) \/ HuntTick(c) \/ Cleanup(c)

SpecMembers == Init /\ [][NextMembers]_vars

SeqRange(seq) == {seq[k] : k \in 1..Len(seq)}

\* C16 -- membership: in every state the ships of a room are keyed by the
\* ids of its current players and of its active bots and by nothing else,
\* one ship for each, whatever the order of addPlayer, removePlayer,
\* startGame, update and cleanup
C16ShipMembership ==
    \A c \in Codes :
        LET r == rooms[c]
        IN  /\ Ids(r.ships) = Ids(r.players) \cup SeqRange(r.aiShipIds)
            /\ Cardinality(Ids(r.ships)) = Len(r.ships)
            /\ Cardinality(Ids(r.players)) = Len(r.players)
            /\ Ids(r.players) \cap SeqRange(r.aiShipIds) = {}

\* a room has been cleaned up in the middle of a match that had a bot and
\* that one of its two players has left: only the remaining player's ship
\* is there
C16Witness ==
    \E c \in Codes :
        LET r == rooms[c]
        IN  /\ last = "cleanup"
            /\ r.phase = "playing"
            /\ r.tick > 0
            /\ \E k \in 1..Len(r.stats) : IsAiId(r.stats[k].id)
            /\ Len(r.players) = 1
            /\ Has(r.stats, ClientId(1)) /\ Has(r.stats, ClientId(2))
            /\ Ids(r.ships) = Ids(r.players)

(***************************************************************************)
(* The GameServer.  Its handlers are the actions below: a connection, the *)
(* six messages handleMessage routes, a disconnection, and a tick of a    *)
(* room's game loop.  Room codes are upper case already, so the           *)
(* toUpperCase of handleMessage is left out.                              *)
(***************************************************************************)
ServerCodes == {"AAAA", "BBBB"}

ServerClients == {ClientId(1), ClientId(2), ClientId(3)}

RoomOf(id) == clients[id].roomCode

Handled(type, id, error) ==
    handled' = [type |-> type, client |-> id, error |-> error]

\* a handler that returned without calling a Room
Dropped(handler) ==
    /\ last' = handler
    /\ UNCHANGED <<rooms, clock, deadFor, atCheck>>

\* a handler that returned early, with the error it sent ("none" for none)
Refused(handler, type, id, error) ==
    /\ UNCHANGED bench
    /\ Dropped(handler)
    /\ UNCHANGED <<clients, gameLoops>>
    /\ Handled(type, id, error)

HandleConnection(id) ==
    /\ UNCHANGED bench
    /\ id \notin DOMAIN clients
    /\ clients' = (id :> [roomCode |-> NoCode, type |-> "controller"]) @@ clients
    /\ Dropped("handleConnection")
    /\ UNCHANGED gameLoops
    /\ handled' = NoMessage

\* code is the draw of generateRoomCode, which does not look at the codes in
\* use: a room that holds the code is replaced.  Left out is the draw of a
\* code that has a loop, whose onTick goes on updating the replaced Room.
CreateRoom(id, code) ==
    /\ UNCHANGED bench
    /\ id \in DOMAIN clients
    /\ code \notin gameLoops
    /\ rooms' = (code :> NewRoom) @@ rooms
    /\ clients' = [clients EXCEPT ![id] = [roomCode |-> code, type |-> "display"]]
    /\ last' = "createRoom"
    /\ clock' = [clock EXCEPT ![code] = 0]
    /\ deadFor' = [deadFor EXCEPT ![code] = <<>>]
    /\ atCheck' = [atCheck EXCEPT ![code] = NewRoom]
    /\ UNCHANGED gameLoops
    /\ Handled("create_room", id, "none")

\* joinRoom without the look at the number of players
JoinRoomWhenFull(id, code, name, spawn) ==
    /\ UNCHANGED bench
    /\ id \in DOMAIN clients
    /\ IF code \notin DOMAIN rooms
       THEN Refused("joinRoom", "join_room", id, "ROOM_NOT_FOUND")
       ELSE /\ clients' = [clients EXCEPT
                              ![id] = [roomCode |-> code, type |-> "controller"]]
            /\ rooms' = [rooms EXCEPT ![code] = addPlayer(@, id, name, spawn)]
            /\ Observe(code, "addPlayer", 0, rooms'[code])
            /\ UNCHANGED gameLoops
            /\ Handled("join_room", id, "none")

JoinRoom(id, code, name, spawn) ==
    /\ UNCHANGED bench
    /\ id \in DOMAIN clients
    /\ IF code \notin DOMAIN rooms
       THEN Refused("joinRoom", "join_room", id, "ROOM_NOT_FOUND")
       ELSE IF Len(rooms[code].players) >= MAX_PLAYERS
       THEN Refused("joinRoom", "join_room", id, "ROOM_FULL")
       ELSE /\ clients' = [clients EXCEPT
                              ![id] = [roomCode |-> code, type |-> "controller"]]
            /\ rooms' = [rooms EXCEPT ![code] = addPlayer(@, id, name, spawn)]
            /\ Observe(code, "addPlayer", 0, rooms'[code])
            /\ UNCHANGED gameLoops
            /\ Handled("join_room", id, "none")

ConnectDisplay(id, code) ==
    /\ UNCHANGED bench
    /\ id \in DOMAIN clients
    /\ IF code \notin DOMAIN rooms
       THEN Refused("connectDisplay", "display_connect", id, "ROOM_NOT_FOUND")
       ELSE /\ clients' = [clients EXCEPT
                              ![id] = [roomCode |-> code, type |-> "display"]]
            /\ Dropped("connectDisplay")
            /\ UNCHANGED gameLoops
            /\ Handled("display_connect", id, "none")

HandleInput(id, input) ==
    /\ UNCHANGED bench
    /\ id \in DOMAIN clients
    /\ IF RoomOf(id) = NoCode \/ RoomOf(id) \notin DOMAIN rooms
       THEN Refused("handleInput", "player_input", id, "none")
       ELSE /\ rooms' = [rooms EXCEPT ![RoomOf(id)] = applyInput(@, id, input)]
            /\ Observe(RoomOf(id), "applyInput", 0, rooms'[RoomOf(id)])
            /\ UNCHANGED <<clients, gameLoops>>
            /\ Handled("player_input", id, "none")

ServerStartGame(id, rnd) ==
    /\ UNCHANGED bench
    /\ id \in DOMAIN clients
    /\ IF RoomOf(id) = NoCode \/ RoomOf(id) \notin DOMAIN rooms
       THEN Refused("startGame", "start_game", id, "none")
       ELSE IF Len(rooms[RoomOf(id)].players) < 1
       THEN Refused("startGame", "start_game", id, "NOT_ENOUGH_PLAYERS")
       ELSE /\ rooms[RoomOf(id)].idCounter < MaxIdCounter
            /\ rooms' = [rooms EXCEPT ![RoomOf(id)] = startGame(@, rnd)]
            /\ Observe(RoomOf(id), "startGame", 0, rooms'[RoomOf(id)])
            /\ gameLoops' = gameLoops \cup {RoomOf(id)}
            /\ UNCHANGED clients
            /\ Handled("start_game", id, "none")

\* what leaveRoom does to the rooms and the loops
Leaving(id) ==
    LET code == RoomOf(id)
    IN  IF code = NoCode \/ code \notin DOMAIN rooms
        THEN Dropped("leaveRoom") /\ UNCHANGED gameLoops
        ELSE LET q == removePlayer(rooms[code], id)
             IN  IF Len(q.players) = 0
                 THEN /\ rooms' = [c \in DOMAIN rooms \ {code} |-> rooms[c]]
                      /\ gameLoops' = gameLoops \ {code}
                      /\ last' = "removePlayer"
                      /\ deadFor' = [deadFor EXCEPT ![code] = <<>>]
                      /\ UNCHANGED <<clock, atCheck>>
                 ELSE /\ rooms' = [rooms EXCEPT ![code] = q]
                      /\ Observe(code, "removePlayer", 0, q)
                      /\ UNCHANGED gameLoops

LeaveRoom(id) ==
    /\ UNCHANGED bench
    /\ id \in DOMAIN clients
    /\ Leaving(id)
    /\ clients' = [clients EXCEPT ![id].roomCode = NoCode]
    /\ Handled("leave_room", id, "none")

HandleDisconnect(id) ==
    /\ UNCHANGED bench
    /\ id \in DOMAIN clients
    /\ Leaving(id)
    /\ clients' = [c \in DOMAIN clients \ {id} |-> clients[c]]
    /\ handled' = NoMessage

\* one tick of the loop GameServer.startGame started for the room
LoopTick(code, rnd) ==
    /\ UNCHANGED bench
    /\ code \in gameLoops
    /\ code \in DOMAIN rooms
    /\ rooms[code].gameMode = "knockout" => rooms[code].tick < MaxTick
    /\ rooms' = [rooms EXCEPT ![code] = update(@, rnd)]
    /\ Observe(code, "update",
               IF rooms[code].phase = "playing" THEN TICK_DT ELSE 0,
               IF updateRuns(rooms[code]) THEN integrate(rooms[code], rnd)
               ELSE rooms'[code])
    /\ UNCHANGED <<clients, gameLoops>>
    /\ handled' = NoMessage

InitServer ==
    /\ rooms = <<>>
    /\ last = "new"
    /\ clock = [c \in ServerCodes |-> 0]
    /\ deadFor = [c \in ServerCodes |-> <<>>]
    /\ atCheck = [c \in ServerCodes |-> NewRoom]
    /\ clients = <<>>
    /\ gameLoops = {}
    /\ handled = NoMessage
    /\ gameLoop = NewGameLoop
    /\ now = 0

(***************************************************************************)
(* SpecServer: one room of the server and the clients around it.  The     *)
(* clients connect one after the other; the first creates the room and    *)
(* shows it, the others join it, while it is in the lobby or before it    *)
(* exists, as Alice and Bob; the first client and Alice may send inputs,  *)
(* and every client may start the match and leave, at any time, while the *)
(* loop ticks.                                                            *)
(***************************************************************************)
ServerNameOf(id) == IF id = ClientId(2) THEN "Alice" ELSE "Bob"

ServerSpawns(id) ==
    IF id = ClientId(2) THEN {[x |-> 4, y |-> 6, rotation |-> 0]}
    ELSE {[x |-> 16, y |-> 6, rotation |-> 2]}

Connects ==
    \E id \in ServerClients :
        /\ \A other \in ServerClients : other[2] < id[2] => other \in DOMAIN clients
        /\ HandleConnection(id)

Creates == "AAAA" \notin DOMAIN rooms /\ CreateRoom(ClientId(1), "AAAA")

Joins ==
    \E id \in ServerClients \ {ClientId(1)} : \E spawn \in ServerSpawns(id) :
        /\ id \in DOMAIN clients
        /\ RoomOf(id) = NoCode
        /\ "AAAA" \in DOMAIN rooms => rooms["AAAA"].phase = "lobby"
        /\ JoinRoom(id, "AAAA", ServerNameOf(id), spawn)

Sends ==
    \E id \in {ClientId(1), ClientId(2)} :
        HandleInput(id, [rotation |-> 0, thrust |-> FALSE, fire |-> TRUE])

Starts == \E id \in ServerClients : \E rnd \in HuntStartDraws : ServerStartGame(id, rnd)

Leaves == \E id \in ServerClients : LeaveRoom(id)

Ticks == \E code \in ServerCodes : \E rnd \in HuntUpdateDraws : LoopTick(code, rnd)

NextServer == Connects \/ Creates \/ Joins \/ Sends \/ Starts \/ Leaves \/ Ticks

SpecServer == InitServer /\ [][NextServer]_vars

\* C17 -- only the leader starts the match: the handling of a start_game
\* message changes the sender's room only if the sender's id is the room's
\* leaderId when the message is handled; sent by another player of the room
\* or by a display, it leaves the room as it was.
C17LeaderStarts ==
    [][\A c \in DOMAIN rooms :
          (/\ handled'.type = "start_game"
           /\ clients[handled'.client].roomCode = c
           /\ handled'.client # rooms[c].leaderId)
          => (c \in DOMAIN rooms' /\ rooms'[c] = rooms[c])]_vars

(***************************************************************************)
(* SpecModes: a room whose mode is set at any time.  Alice and Bob join   *)
(* in the lobby, the match is started and started again, the loop ticks   *)
(* it, and setGameMode is called in every phase with every mode.          *)
(***************************************************************************)
AnyMode(c) == \E mode \in GameModes : SetGameMode(c, mode)

NextModes ==
    \E c \in Codes : HuntJoin(c) \/ AnyMode(c) \/ MemberStart(c) \/ HuntTick(c)

SpecModes == Init /\ [][NextModes]_vars

\* C18 -- setGameMode(mode) sets gameMode, and nothing else, in phase lobby;
\* in phase playing or gameover it leaves the whole room as it is; so no
\* step changes the mode of a room that has left the lobby.
C18ModeFrozen ==
    /\ [](\A c \in Codes : \A mode \in GameModes :
              setGameMode(rooms[c], mode) =
                  IF rooms[c].phase = "lobby"
                  THEN [rooms[c] EXCEPT !.gameMode = mode]
                  ELSE rooms[c])
    /\ [][\A c \in Codes :
              /\ (last' = "setGameMode" /\ rooms[c].phase # "lobby")
                     => rooms'[c] = rooms[c]
              /\ rooms[c].phase # "lobby" => rooms'[c].gameMode = rooms[c].gameMode]_vars

\* setGameMode has just been called on a running knockout match
C18Witness ==
    \E c \in Codes :
        /\ last = "setGameMode"
        /\ rooms[c].phase = "playing"
        /\ rooms[c].tick > 0
        /\ rooms[c].gameMode = "knockout"

\* C19 -- update is a no-op unless the phase is playing: called on a room in
\* phase lobby or gameover it leaves the whole room as it is: tick,
\* gameTimer, the ships, bullets, asteroids and explosions, every timer,
\* score and statistic.
C19UpdateOnlyInPlay ==
    [][\A c \in Codes :
          (last' = "update" /\ rooms[c].phase # "playing") => rooms'[c] = rooms[c]]_vars

\* update has just been called on a lobby whose two ships are invulnerable
C19Witness ==
    \E c \in Codes :
        /\ last = "update"
        /\ rooms[c].phase = "lobby"
        /\ Len(rooms[c].ships) = 2
        /\ \A i \in 1..Len(rooms[c].ships) :
               rooms[c].ships[i].invulnTimer = SHIP_INVULN_TIME

\* the player_input of client id finds no living ship to steer
Stale(id) ==
    \/ RoomOf(id) = NoCode
    \/ RoomOf(id) \notin DOMAIN rooms
    \/ ~Has(rooms[RoomOf(id)].ships, id)
    \/ ~Get(rooms[RoomOf(id)].ships, id).isAlive

\* C20 -- stale input is a harmless no-op: the handling of a player_input
\* from a client that has no room, whose room is no longer in the registry,
\* that has no ship in its room or whose ship is dead changes no room, no
\* client and no loop, and sends no error.
C20StaleInputIgnored ==
    [][(handled'.type = "player_input" /\ Stale(handled'.client))
          => /\ rooms' = rooms
             /\ clients' = clients
             /\ gameLoops' = gameLoops
             /\ handled'.error = "none"]_vars

\* Alice has just sent an input while her ship was dead in a running match
C20Witness ==
    /\ handled.type = "player_input"
    /\ handled.client = ClientId(2)
    /\ RoomOf(ClientId(2)) \in DOMAIN rooms
    /\ rooms[RoomOf(ClientId(2))].phase = "playing"
    /\ Has(rooms[RoomOf(ClientId(2))].ships, ClientId(2))
    /\ ~Get(rooms[RoomOf(ClientId(2))].ships, ClientId(2)).isAlive

(***************************************************************************)
(* SpecDoor: the requests the server screens.  The clients connect one    *)
(* after the other, the first creates room AAAA, and then every client    *)
(* may ask to join either code, under a name of its own, ask to start the *)
(* match of its room, and leave, in any order.  The loops do not tick.    *)
(***************************************************************************)
DoorNameOf(id) ==
    CASE id = ClientId(1) -> "Eve"
      [] id = ClientId(2) -> "Alice"
      [] OTHER -> "Bob"

Knocks ==
    \E id \in ServerClients, code \in ServerCodes : \E spawn \in ServerSpawns(id) :
        JoinRoom(id, code, DoorNameOf(id), spawn)

NextDoor == Connects \/ Creates \/ Knocks \/ Starts \/ Leaves

SpecDoor == InitServer /\ [][NextDoor]_vars

JoinOf(id, code) ==
    \E spawn \in ServerSpawns(id) : JoinRoom(id, code, DoorNameOf(id), spawn)

StartOf(id) == \E rnd \in HuntStartDraws : ServerStartGame(id, rnd)

\* the step sent the error to client id and changed nothing else
Refusal(id, type, error) ==
    /\ handled' = [type |-> type, client |-> id, error |-> error]
    /\ rooms' = rooms
    /\ clients' = clients
    /\ gameLoops' = gameLoops

\* C21 -- invalid targets: a join_room for a code no room holds is answered
\* with ROOM_NOT_FOUND, one for a room that holds MAX_PLAYERS players with
\* ROOM_FULL, a start_game for a room without players with
\* NOT_ENOUGH_PLAYERS; each such step, and every step that sends an error,
\* leaves all rooms, all clients' room codes and all loops as they were; and
\* no room ever holds more than MAX_PLAYERS players.
C21InvalidTargets ==
    /\ [](\A c \in DOMAIN rooms : Len(rooms[c].players) <= MAX_PLAYERS)
    /\ [][/\ \A id \in ServerClients, code \in ServerCodes :
                JoinOf(id, code) =>
                    IF code \notin DOMAIN rooms
                    THEN Refusal(id, "join_room", "ROOM_NOT_FOUND")
                    ELSE IF Len(rooms[code].players) >= MAX_PLAYERS
                    THEN Refusal(id, "join_room", "ROOM_FULL")
                    ELSE handled'.error = "none"
          /\ \A id \in ServerClients :
                (/\ StartOf(id)
                 /\ RoomOf(id) \in DOMAIN rooms
                 /\ Len(rooms[RoomOf(id)].players) = 0)
                    => Refusal(id, "start_game", "NOT_ENOUGH_PLAYERS")
          /\ handled'.error # "none" =>
                rooms' = rooms /\ clients' = clients /\ gameLoops' = gameLoops]_vars

\* a client has just been refused by a room that holds MAX_PLAYERS players
C21Witness ==
    /\ handled.type = "join_room"
    /\ handled.error = "ROOM_FULL"
    /\ \E c \in DOMAIN rooms : Len(rooms[c].players) = MAX_PLAYERS

(***************************************************************************)
(* SpecCollide: SpecServer without inputs, with clients that disconnect   *)
(* and with a second room creation: the third client, instead of joining, *)
(* may send create_room, and generateRoomCode may draw AAAA for it as it  *)
(* did for the first client.                                              *)
(***************************************************************************)
Opens ==
    \E id \in {ClientId(1), ClientId(3)} :
        /\ id \in DOMAIN clients
        /\ RoomOf(id) = NoCode
        /\ CreateRoom(id, "AAAA")

Disconnects == \E id \in ServerClients : HandleDisconnect(id)

NextCollide == Connects \/ Opens \/ Joins \/ Starts \/ Leaves \/ Disconnects \/ Ticks

SpecCollide == InitServer /\ [][NextCollide]_vars

\* the step is the leave_room or the disconnection of client id
Departs(id) ==
    /\ id \in DOMAIN clients
    /\ \/ id \notin DOMAIN clients'
       \/ handled' = [type |-> "leave_room", client |-> id, error |-> "none"]

\* C22 -- room disposal: the step in which the last player of a room leaves
\* or disconnects removes the room from the registry and its loop from the
\* loops; no loop is kept for a code without a room, so no tick and no
\* broadcast follows; and a room that has a player stays in the registry
\* with its players unless the step is the departure of its last player.
C22RoomDisposal ==
    /\ [](gameLoops \subseteq DOMAIN rooms)
    /\ [][\A code \in DOMAIN rooms :
              /\ \A id \in ServerClients :
                    (/\ Departs(id)
                     /\ RoomOf(id) = code
                     /\ Ids(rooms[code].players) = {id})
                    => (code \notin DOMAIN rooms' /\ code \notin gameLoops')
              /\ (/\ Len(rooms[code].players) > 0
                  /\ \/ code \notin DOMAIN rooms'
                     \/ Len(rooms'[code].players) = 0)
                    => \E id \in ServerClients :
                          /\ Departs(id)
                          /\ RoomOf(id) = code
                          /\ Ids(rooms[code].players) = {id}]_vars

\* C27 -- room codes are unique: the code a create_room gives its room is
\* the code of no room that the registry holds, so that no room and no
\* player of a room is replaced.
C27FreshCode ==
    [][handled'.type = "create_room" =>
          /\ clients'[handled'.client].roomCode \notin DOMAIN rooms
          /\ \A code \in DOMAIN rooms :
                code \in DOMAIN rooms' /\ rooms'[code] = rooms[code]]_vars

(***************************************************************************)
(* SpecLoop: a GameLoop on its own.  It is started once, as               *)
(* GameServer.startGame starts the loop it makes; time passes; the        *)
(* pending setImmediate runs loop whenever it comes to run; and the loop  *)
(* may be stopped.                                                         *)
(***************************************************************************)
world == <<rooms, last, clock, deadFor, atCheck, clients, gameLoops, handled>>

Elapse == now < MaxNow /\ now' = now + 1 /\ UNCHANGED <<gameLoop, world>>

LoopStart ==
    /\ gameLoop = NewGameLoop
    /\ gameLoop' = start(gameLoop, now)
    /\ UNCHANGED <<now, world>>

LoopRun ==
    /\ gameLoop.scheduled
    /\ gameLoop' = loop(gameLoop, now)
    /\ UNCHANGED <<now, world>>

LoopStop ==
    /\ gameLoop.running
    /\ gameLoop' = stop(gameLoop)
    /\ UNCHANGED <<now, world>>

NextLoop == Elapse \/ LoopStart \/ LoopRun \/ LoopStop

SpecLoop == InitServer /\ [][NextLoop]_vars

CountOf(calls, what) == Cardinality({i \in 1..Len(calls) : calls[i] = what})

\* C23 -- broadcast cadence: with N = TICK_RATE / BROADCAST_RATE, onBroadcast
\* is called once after every N-th onTick and at no other time: after n ticks
\* there have been floor(n / N) broadcasts, each right after the tick that
\* completes its group of N, however the ticks fall into calls of loop.
C23BroadcastCadence ==
    LET N == TICK_RATE \div BROADCAST_RATE
        calls == gameLoop.calls
    IN  /\ N * BROADCAST_RATE = TICK_RATE
        /\ \A i \in 1..Len(calls) : calls[i] = "broadcast" <=> i % (N + 1) = 0
        /\ CountOf(calls, "broadcast") = CountOf(calls, "tick") \div N
        /\ gameLoop.broadcastCounter = CountOf(calls, "tick") % N

\* one call of loop has made three ticks, with a broadcast after the second
\* of them, which completed a group begun by an earlier call
C23Witness ==
    /\ gameLoop.drained = 3
    /\ CountOf(gameLoop.calls, "tick") = 4
    /\ gameLoop.broadcastCounter = 0
    /\ gameLoop.calls = <<"tick", "tick", "broadcast", "tick", "tick", "broadcast">>

\* C24 -- fixed-timestep drain: a call of loop adds the time since the
\* previous call to the accumulator and calls onTick once for every whole
\* tickInterval in it, leaving 0 <= accumulator < tickInterval; the number of
\* onTick calls is floor(elapsed / tickInterval), elapsed being the time from
\* start to the latest call of loop, whatever the deltas were.
C24FixedTimestep ==
    /\ [](/\ 0 <= gameLoop.accumulator
          /\ gameLoop.accumulator < tickInterval
          /\ CountOf(gameLoop.calls, "tick")
                 = (gameLoop.lastTick - gameLoop.started) \div tickInterval
          /\ gameLoop.accumulator
                 = (gameLoop.lastTick - gameLoop.started) % tickInterval)
    /\ [][(gameLoop.running /\ gameLoop'.running /\ gameLoop' # gameLoop)
              => /\ gameLoop'.lastTick = now
                 /\ CountOf(gameLoop'.calls, "tick") - CountOf(gameLoop.calls, "tick")
                        = (gameLoop.accumulator + (now - gameLoop.lastTick))
                              \div tickInterval
                 /\ gameLoop'.drained
                        = CountOf(gameLoop'.calls, "tick") - CountOf(gameLoop.calls, "tick")
                 /\ gameLoop'.accumulator
                        = (gameLoop.accumulator + (now - gameLoop.lastTick))
                              % tickInterval]_vars

\* a call of loop that came late has made two ticks at once and left a rest
\* in the accumulator, after a call that made none
C24Witness ==
    /\ gameLoop.running
    /\ gameLoop.drained = 2
    /\ gameLoop.accumulator > 0
    /\ CountOf(gameLoop.calls, "tick") = 3
    /\ gameLoop.started > 0

\* C25 -- roster fill: right after startGame on a lobby room with h >= 1
\* players the phase is playing, tick is 0, gameTimer is GAME_DURATION and
\* the room holds TOTAL_PLAYERS ships: the h ships of the players, as they
\* were, and TOTAL_PLAYERS - h bot ships, each alive, with score 0 and the
\* full invulnerability time.
C25RosterFill ==
    [][\A c \in Codes :
          (/\ last' = "startGame"
           /\ rooms[c].phase = "lobby"
           /\ Len(rooms[c].players) >= 1)
          => LET r == rooms[c]
                 q == rooms'[c]
                 h == Len(r.players)
                 bots == {i \in 1..Len(q.ships) : IsAiId(q.ships[i].id)}
             IN  /\ q.phase = "playing"
                 /\ q.tick = 0
                 /\ q.gameTimer = GAME_DURATION
                 /\ q.players = r.players
                 /\ Len(q.ships) = TOTAL_PLAYERS
                 /\ Cardinality(Ids(q.ships)) = TOTAL_PLAYERS
                 /\ SubSeq(q.ships, 1, h) = r.ships
                 /\ Ids(r.ships) = Ids(r.players)
                 /\ bots = (h + 1)..TOTAL_PLAYERS
                 /\ {q.ships[i].id : i \in bots} = SeqRange(q.aiShipIds)
                 /\ \A i \in bots :
                        /\ q.ships[i].isAlive
                        /\ q.ships[i].score = 0
                        /\ q.ships[i].invulnTimer = SHIP_INVULN_TIME]_vars

\* a match has just been started for one player, with two bots
C25Witness ==
    \E c \in Codes :
        /\ last = "startGame"
        /\ rooms[c].tick = 0
        /\ Len(rooms[c].players) = 1
        /\ Len(rooms[c].aiShipIds) = TOTAL_PLAYERS - 1
        /\ Len(rooms[c].ships) = TOTAL_PLAYERS
        /\ Len(rooms[c].stats) = TOTAL_PLAYERS

(***************************************************************************)
(* SpecScore: a match in which the client that scores joins again.  Alice *)
(* and Bob join in the lobby, Alice shoots, and once she has scored her   *)
(* client may send join_room again under her name while the match runs.   *)
(***************************************************************************)
Again(c) ==
    \E spawn \in LobbyDraws :
        /\ rooms[c].phase = "playing"
        /\ Has(rooms[c].ships, ClientId(1))
        /\ Get(rooms[c].ships, ClientId(1)).score > 0
        /\ AddPlayer(c, ClientId(1), NameOf(ClientId(1)), spawn)

NextScore ==
    \E c \in Codes : NamesJoin(c) \/ Shoot(c) \/ Start(c) \/ Again(c) \/ Tick(c)

SpecScore == Init /\ [][NextScore]_vars

ScoresNonNegative ==
    \A c \in Codes : \A i \in 1..Len(rooms[c].ships) : rooms[c].ships[i].score >= 0

\* C26 as stated -- for every ship id, while the id has a ship, its score is
\* never negative and no step lowers it.
C26ScoreMonotonicStated ==
    /\ []ScoresNonNegative
    /\ [][\A c \in Codes : \A i \in 1..Len(rooms[c].ships) :
              LET id == rooms[c].ships[i].id
              IN  Has(rooms'[c].ships, id)
                      => Get(rooms'[c].ships, id).score >= rooms[c].ships[i].score]_vars

\* C26 -- for every ship id, while the id has a ship, its score is never
\* negative, and the only step that lowers it is an addPlayer for that id,
\* which replaces the ship by a fresh one with score 0.
C26ScoreMonotonic ==
    /\ []ScoresNonNegative
    /\ [][\A c \in Codes : \A i \in 1..Len(rooms[c].ships) :
              LET id == rooms[c].ships[i].id
              IN  Has(rooms'[c].ships, id)
                      => \/ Get(rooms'[c].ships, id).score >= rooms[c].ships[i].score
                         \/ /\ last' = "addPlayer"
                            /\ Has(rooms'[c].players, id)
                            /\ Get(rooms'[c].ships, id).score = 0
                            /\ Get(rooms'[c].ships, id).invulnTimer = SHIP_INVULN_TIME]_vars

\* Alice's client has joined again after a kill: her ship has no score left
C26Witness ==
    \E c \in Codes :
        /\ last = "addPlayer"
        /\ rooms[c].phase = "playing"
        /\ Has(rooms[c].ships, ClientId(1))
        /\ Get(rooms[c].ships, ClientId(1)).score = 0
        /\ StatsOf(rooms[c], ClientId(1)).kills > 0

\* C28 -- fireCooldown and invulnTimer are floored at 0: in every state
\* every ship has fireCooldown >= 0 and invulnTimer >= 0, also after the
\* update on which a timer that is no whole multiple of dt runs out.
C28TimersFloored ==
    \A c \in Codes : \A i \in 1..Len(rooms[c].ships) :
        rooms[c].ships[i].fireCooldown >= 0 /\ rooms[c].ships[i].invulnTimer >= 0


(***************************************************************************)
(* Kills of one update.                                                    *)
(***************************************************************************)
\* how often shipsToKill names ship id as checkCollisions starts
Scheduled(r, id) ==
    Cardinality({k \in 1..Len(shipsToKill(r)) : shipsToKill(r)[k].shipId = id})

\* the kills of ship b that the statistics credit, over all participants
RECURSIVE CreditedFrom(_, _, _)
CreditedFrom(r, b, i) ==
    IF i > Len(r.stats) THEN 0
    ELSE KilledCount(r, r.stats[i].id, b) + CreditedFrom(r, b, i + 1)

\* the ships that were alive as checkCollisions started and are dead after it
Died(c) ==
    {i \in 1..Len(atCheck[c].ships) :
        /\ atCheck[c].ships[i].isAlive
        /\ ~Get(rooms[c].ships, atCheck[c].ships[i].id).isAlive}

\* C29 -- kills are deduplicated per tick: in one update each ship is killed
\* at most once however many causes schedule it, so its deaths tally rises by
\* at most 1, at most one kill is credited for it, and the update spawns one
\* explosion per ship that died (next to one per asteroid hit).
C29KillsDeduplicated ==
    \A c \in Codes :
        Resolved(c) =>
            /\ \A i \in 1..Len(atCheck[c].ships) :
                   LET id == atCheck[c].ships[i].id
                   IN  /\ StatsOf(rooms[c], id).deaths
                            <= StatsOf(atCheck[c], id).deaths + 1
                       /\ CreditedFrom(rooms[c], id, 1)
                            <= CreditedFrom(atCheck[c], id, 1) + 1
            /\ Len(rooms[c].explosions) =
                   Len(atCheck[c].explosions) + Cardinality(Died(c))
                     + Len(asteroidSplits(atCheck[c], 1))

\* a ship scheduled by a bullet and by something else has died
C29Witness ==
    \E c \in Codes :
        /\ Resolved(c)
        /\ \E i \in Died(c) :
              LET id == atCheck[c].ships[i].id
              IN  /\ \E k \in 1..Len(bulletKills(atCheck[c], 1)) :
                         bulletKills(atCheck[c], 1)[k].shipId = id
                  /\ Scheduled(atCheck[c], id) >= 2


\* the kills and the deaths of the statistics, over all participants
RECURSIVE SumKills(_, _)
SumKills(r, i) ==
    IF i > Len(r.stats) THEN 0 ELSE r.stats[i].kills + SumKills(r, i + 1)

RECURSIVE SumDeaths(_, _)
SumDeaths(r, i) ==
    IF i > Len(r.stats) THEN 0 ELSE r.stats[i].deaths + SumDeaths(r, i + 1)

\* no bullet scheduled ship id as checkCollisions started
Environmental(r, id) ==
    \A k \in 1..Len(bulletKills(r, 1)) : bulletKills(r, 1)[k].shipId # id

\* C30 -- kill statistics move only on attributed kills: a ship that dies in
\* an update with no killer (asteroid or ram) keeps its deaths tally and its
\* killedBy map, and the kills of all participants always add up to their
\* deaths.
C30AttributedOnly ==
    \A c \in Codes :
        /\ SumKills(rooms[c], 1) = SumDeaths(rooms[c], 1)
        /\ Resolved(c) =>
               \A i \in Died(c) :
                   LET id == atCheck[c].ships[i].id
                   IN  Environmental(atCheck[c], id) =>
                           /\ StatsOf(rooms[c], id).deaths = StatsOf(atCheck[c], id).deaths
                           /\ StatsOf(rooms[c], id).killedBy = StatsOf(atCheck[c], id).killedBy


\* the asteroids that the statistics count as destroyed, over all participants
RECURSIVE SumDestroyed(_, _)
SumDestroyed(r, i) ==
    IF i > Len(r.stats) THEN 0
    ELSE r.stats[i].asteroidsDestroyed + SumDestroyed(r, i + 1)

\* C31 -- no double hit on an asteroid within a tick: however many bullets
\* overlap an asteroid in one update, it is split once: the update spawns at
\* most two children and one explosion per asteroid it destroys, and the
\* statistics count each destroyed asteroid once.
C31SingleSplit ==
    \A c \in Codes :
        Resolved(c) =>
            LET m == atCheck[c]
                q == rooms[c]
                gone == NotIn(m, q)
                born == NotIn(q, m)
            IN  /\ Cardinality(born) <= 2 * Cardinality(gone)
                /\ Len(q.explosions) - Len(m.explosions) - Cardinality(Died(c))
                     <= Cardinality(gone)
                /\ SumDestroyed(q, 1) - SumDestroyed(m, 1) <= Cardinality(gone)


\* C32 -- asteroid population cap: a room never holds more asteroids than its
\* mode's cap (HUNTERS_MAX_ASTEROIDS in asteroid_hunters, MAX_ASTEROIDS
\* otherwise); with MAX_ASTEROIDS = 0 a room in ffa or knockout holds none.
C32AsteroidCap ==
    \A c \in DOMAIN rooms :
        /\ Len(rooms[c].asteroids) <= maxAsteroids(rooms[c])
        /\ (rooms[c].gameMode # "asteroid_hunters" /\ MAX_ASTEROIDS = 0)
               => rooms[c].asteroids = <<>>

\* an update has destroyed an asteroid that splits, and the room, full at
\* its cap, has fewer than two children for it
C32Witness ==
    \E c \in Codes :
        /\ Resolved(c)
        /\ Len(rooms[c].asteroids) = maxAsteroids(rooms[c])
        /\ \E i \in NotIn(atCheck[c], rooms[c]) :
              /\ atCheck[c].asteroids[i].size # "small"
              /\ Cardinality(NotIn(rooms[c], atCheck[c]))
                     < 2 * Cardinality(NotIn(atCheck[c], rooms[c]))


\* the update of room c that this step takes went as far as updateAI
Resolving(c) ==
    /\ last' = "update"
    /\ c \in DOMAIN rooms
    /\ rooms[c].phase = "playing"
    /\ rooms'[c].phase = "playing"
    /\ rooms'[c].tick = rooms[c].tick + 1

\* the shots that the statistics of room r count for ship id
ShotsFired(r, id) == IF Has(r.stats, id) THEN StatsOf(r, id).shotsFired ELSE 0

\* C33 -- bots pass the same fire gates as humans: in an update a bot fires
\* only if its ship was alive, and off cooldown and not invulnerable once the
\* update had counted its timers down; after the shot its fireCooldown is
\* 1.5 x FIRE_COOLDOWN; a bot that is dead as the bots are run neither turns
\* nor thrusts nor fires.  A human's input creates a bullet only from a ship
\* that is alive with fireCooldown <= 0 and invulnTimer <= 0.
C33BotFireGates ==
    [][\A c \in Codes :
         /\ Resolving(c) =>
              \A k \in 1..Len(rooms[c].aiShipIds) :
                  LET id == rooms[c].aiShipIds[k]
                      s == Get(rooms[c].ships, id)
                      t == Get(atCheck'[c].ships, id)
                  IN  /\ ShotsFired(atCheck'[c], id) > ShotsFired(rooms[c], id) =>
                            /\ s.isAlive
                            /\ countDown(s.fireCooldown) <= 0
                            /\ countDown(s.invulnTimer) <= 0
                            /\ t.fireCooldown = (FIRE_COOLDOWN * 3) \div 2
                            /\ ShotsFired(atCheck'[c], id) = ShotsFired(rooms[c], id) + 1
                      /\ ~t.isAlive =>
                            /\ ShotsFired(atCheck'[c], id) = ShotsFired(rooms[c], id)
                            /\ t.rotation = s.rotation
                            /\ t.isThrusting = s.isThrusting
         /\ (last' = "applyInput" /\ c \in DOMAIN rooms /\ c \in DOMAIN rooms') =>
              \A i \in 1..Len(rooms'[c].bullets) :
                  LET b == rooms'[c].bullets[i]
                  IN  ~Has(rooms[c].bullets, b.id) =>
                          /\ Has(rooms[c].ships, b.ownerId)
                          /\ Get(rooms[c].ships, b.ownerId).isAlive
                          /\ Get(rooms[c].ships, b.ownerId).fireCooldown <= 0
                          /\ Get(rooms[c].ships, b.ownerId).invulnTimer <= 0]_vars

\* a bot has fired in the update just taken: its bullet is new and its
\* cooldown is the bots'
C33Witness ==
    \E c \in Codes :
        /\ Resolved(c)
        /\ \E i \in 1..Len(atCheck[c].bullets) :
              /\ atCheck[c].bullets[i].lifetime = BULLET_LIFETIME
              /\ IsAiId(atCheck[c].bullets[i].ownerId)
              /\ Get(atCheck[c].ships, atCheck[c].bullets[i].ownerId).fireCooldown
                     = (FIRE_COOLDOWN * 3) \div 2


\* the scratch state of bot id in room r
AiStateOf(r, id) == Get(r.aiState, id)

\* bot id of room c has re-decided in the update this step takes
Rethought(c, id) ==
    /\ Has(rooms[c].aiState, id)
    /\ Get(atCheck'[c].ships, id).isAlive
    /\ AiStateOf(rooms[c], id).nextThinkTime - TICK_DT <= 0

\* C34 -- a bot fires only at a target: a bot fires in an update only if it
\* holds a target id naming a living ship of the room; a bot whose target has
\* died, or that wanders, does not fire.  A target chosen at a re-decision is
\* not the bot, not dead and not invulnerable.
C34FiresAtTarget ==
    [][\A c \in Codes :
         Resolving(c) =>
             \A k \in 1..Len(rooms[c].aiShipIds) :
                 LET id == rooms[c].aiShipIds[k]
                     st == AiStateOf(atCheck'[c], id)
                 IN  /\ ShotsFired(atCheck'[c], id) > ShotsFired(rooms[c], id) =>
                           /\ st.targetId # NoId
                           /\ Has(atCheck'[c].ships, st.targetId)
                           /\ Get(atCheck'[c].ships, st.targetId).isAlive
                     /\ (Rethought(c, id) /\ st.targetId # NoId) =>
                           /\ st.targetId # id
                           /\ Has(atCheck'[c].ships, st.targetId)
                           /\ Get(atCheck'[c].ships, st.targetId).isAlive
                           /\ Get(atCheck'[c].ships, st.targetId).invulnTimer <= 0]_vars


(***************************************************************************)
(* SpecSweep: the match of SpecScore, cleaned up while bullets fly or      *)
(* explosions show.                                                        *)
(***************************************************************************)
Sweep(c) ==
    /\ rooms[c].bullets # <<>> \/ rooms[c].explosions # <<>>
    /\ Cleanup(c)

NextSweep ==
    \E c \in Codes : NamesJoin(c) \/ Shoot(c) \/ Start(c) \/ Sweep(c) \/ Tick(c)

SpecSweep == Init /\ [][NextSweep]_vars

\* C35 -- cleanup: after cleanup() a room holds no bullet, no asteroid, no
\* explosion, no bot ship and no bot scratch state; every player's ship
\* record is the one it was, score included, and the ship ids are exactly
\* the player ids.
C35CleanupFrame ==
    [][\A c \in Codes :
         (last' = "cleanup" /\ c \in DOMAIN rooms) =>
             LET r == rooms[c]
                 q == rooms'[c]
             IN  /\ q.bullets = <<>>
                 /\ q.asteroids = <<>>
                 /\ q.explosions = <<>>
                 /\ q.aiShipIds = <<>>
                 /\ q.aiState = <<>>
                 /\ \A i \in 1..Len(q.ships) : ~IsAiId(q.ships[i].id)
                 /\ \A id \in Ids(r.players) :
                        Has(r.ships, id) =>
                            Has(q.ships, id) /\ Get(q.ships, id) = Get(r.ships, id)
                 /\ Ids(q.ships) = Ids(q.players)
                 /\ q.players = r.players]_vars

\* a match with a bot, in which a player has scored, has been cleaned up
C35Witness ==
    \E c \in Codes :
        /\ last = "cleanup"
        /\ rooms[c].phase = "playing"
        /\ \E id \in Ids(rooms[c].players) : Get(rooms[c].ships, id).score > 0
        /\ \E k \in 1..Len(rooms[c].stats) :
              IsAiId(rooms[c].stats[k].id)


\* C36 -- ship population bound: a room never holds more than MAX_PLAYERS
\* ships, players and bots together, whatever the order of join_room,
\* leave_room, start_game and ticks.
C36ShipBound ==
    \A c \in DOMAIN rooms : Len(rooms[c].ships) <= MAX_PLAYERS


\* the live bullets of room r that ship id owns
BulletsOf(r, id) == {i \in 1..Len(r.bullets) : r.bullets[i].ownerId = id}

\* the ids that own a bullet of room r
Owners(r) == {r.bullets[i].ownerId : i \in 1..Len(r.bullets)}

\* C37 -- bullet population bound: in every state a ship id owns at most 2
\* live bullets, whatever the order of inputs, deaths, respawns and phase
\* changes.
C37BulletBound ==
    \A c \in DOMAIN rooms :
        \A id \in Owners(rooms[c]) : Cardinality(BulletsOf(rooms[c], id)) <= 2

\* a ship has two bullets in flight
C37Witness ==
    \E c \in Codes :
        \E id \in Owners(rooms[c]) : Cardinality(BulletsOf(rooms[c], id)) = 2


\* C38 -- leader validity: in every state leaderId is null exactly when the
\* room has no players, and otherwise is the id of one of its players.
C38LeaderValid ==
    \A c \in DOMAIN rooms :
        /\ (rooms[c].leaderId = NoId) <=> (rooms[c].players = <<>>)
        /\ rooms[c].leaderId # NoId => Has(rooms[c].players, rooms[c].leaderId)

\* the first client the room ever had has joined again after it was
\* removed: it is a player and another player leads
C38Witness ==
    \E c \in Codes :
        /\ last = "addPlayer"
        /\ Len(rooms[c].players) >= 2
        /\ Has(rooms[c].players, rooms[c].stats[1].id)
        /\ rooms[c].leaderId # rooms[c].stats[1].id


(***************************************************************************)
(* SpecRoam: two clients that go from room to room.  Each of them may     *)
(* send create_room (the draw is a code not in use), join_room and         *)
(* display_connect for any code, leave_room, or disconnect, in any order;  *)
(* no match is started.                                                    *)
(***************************************************************************)
Roamers == {ClientId(1), ClientId(2)}

Arrives == \E id \in Roamers : HandleConnection(id)

Builds ==
    \E id \in Roamers, code \in ServerCodes :
        /\ code \notin DOMAIN rooms
        /\ CreateRoom(id, code)

Roams ==
    \E id \in Roamers, code \in ServerCodes : \E spawn \in ServerSpawns(id) :
        JoinRoom(id, code, DoorNameOf(id), spawn)

Shows == \E id \in Roamers, code \in ServerCodes : ConnectDisplay(id, code)

Parts == \E id \in Roamers : LeaveRoom(id)

Drops == \E id \in Roamers : HandleDisconnect(id)

NextRoam == Arrives \/ Builds \/ Roams \/ Shows \/ Parts \/ Drops

SpecRoam == InitServer /\ [][NextRoam]_vars

\* the rooms whose players hold client id
RoomsOf(id) == {c \in DOMAIN rooms : Has(rooms[c].players, id)}

\* C39 -- a client belongs to at most one room: in every state a client id
\* is in the players of at most one room, and that room is the client's
\* roomCode.
C39OneRoom ==
    \A id \in ServerClients :
        /\ Cardinality(RoomsOf(id)) <= 1
        /\ \A c \in RoomsOf(id) : id \in DOMAIN clients /\ RoomOf(id) = c


\* C40 -- bullets are created only during play: no step adds a bullet to a
\* room whose phase is 'lobby' or 'gameover'.
C40BulletsOnlyInPlay ==
    [][\A c \in DOMAIN rooms :
         (c \in DOMAIN rooms' /\ rooms[c].phase # "playing") =>
             \A i \in 1..Len(rooms'[c].bullets) :
                 Has(rooms[c].bullets, rooms'[c].bullets[i].id)]_vars

=============================================================================
